---- MODULE Spec2Model ----
(***************************************************************************)
(* A model of the iroh connectivity layer: the MagicSock socket            *)
(* (iroh-net/src/magicsock.rs), its actor, the direct-address update       *)
(* state and the fake-address generator, the relay client                  *)
(* (iroh-net/src/relay/client.rs, client/conn.rs) and the start command    *)
(* of the CLI (iroh-cli/src/commands/start.rs).                            *)
(*                                                                         *)
(* The module holds several specifications over one set of variables.      *)
(* Each specification lets the environment trigger one group of            *)
(* operations and leaves the variables of the other groups at their        *)
(* initial values:                                                         *)
(*   Spec        try_send, add_node_addr and close, every handler one      *)
(*               atomic step                                               *)
(*   SpecRecv    poll_recv over UDP and relay, the DISCO receive path,     *)
(*               the actor's relay reads, and close                        *)
(*   SpecUpdate  the direct-address update state machine, with             *)
(*               schedule_run split at its read of `running`, since it is  *)
(*               called from the send path on another thread               *)
(*   SpecAddr    add_node_addr against the published direct addresses      *)
(*   SpecGen     concurrent calls of QuicMappedAddr::generate              *)
(*   SpecCli     two run_with_command processes on one data directory      *)
(*   SpecSplit   split_packets over bounded transmits                      *)
(*   SpecEq      equality of DiscoveredDirectAddrs over bounded lists      *)
(*   SpecRelay   the relay client actor and the requests of its handles    *)
(*   SpecConn    Conn::send and the writer task of a relay connection      *)
(*   SpecMeta    the RecvMeta of the datagrams poll_recv hands up, with    *)
(*               two peers in the node map                                 *)
(*   SpecGro     the packet loop of poll_recv over one UDP datagram        *)
(*   SpecAsm     the address list store_direct_addr_update assembles       *)
(*   SpecHome    netcheck reports, the election of the home relay and      *)
(*               the relay actor's channel                                 *)
(*   SpecIo      the writer and reader tasks of a relay connection and     *)
(*               ConnReceiver::recv                                        *)
(*   SpecTask    Handle::close with the JoinSet of the three actor tasks   *)
(*   SpecPing    handle_ping with the bounded UDP disco queue and relay    *)
(*               actor channel                                             *)
(*   SpecSend    try_send with every list of ping actions                  *)
(*   SpecWake    poll_recv_relay against the actor's enqueue and wake      *)
(*   SpecHomeLive  SpecHome under the fairness of the runtime              *)
(*   SpecOrder   the store tasks of successive direct-address updates      *)
(*   SpecTracker the relay client's PingTracker and its ping tasks         *)
(*   SpecParts   PacketSplitIter over bounded relay reads                  *)
(***************************************************************************)
EXTENDS Integers, Sequences, FiniteSets, TLC

None == "none"

\* ------------------------------------------------------------------ bounds
MaxGenerate == 4

\* ----------------------------------------------------------- small domains
NodeIds == {"n1"}
UdpAddrs == {"a1"}
RelayUrls == {"r1"}
Closers == {"c1", "c2"}
GenProcs == {"g1", "g2"}

\* ------------------------------------------------- QuicMappedAddr::generate
ADDR_PREFIXL == 253
ADDR_GLOBAL_ID == <<21, 7, 10, 81, 11>>
ADDR_SUBNET == <<0, 0>>
MAPPED_PORT == 12345
ADDR_COUNTER_INIT == 1

\* u64::to_be_bytes, the low byte last; n is the number of bytes still to emit
RECURSIVE ToBeBytes(_, _)
ToBeBytes(v, n) ==
    IF n = 0 THEN <<>> ELSE Append(ToBeBytes(v \div 256, n - 1), v % 256)

\* the address built around the counter value fetch_add returned
QuicMappedAddrOf(counter) ==
    [ip |-> <<ADDR_PREFIXL>> \o ADDR_GLOBAL_ID \o ADDR_SUBNET \o ToBeBytes(counter, 8),
     port |-> MAPPED_PORT]

\* a lost increment: the counter is read but not advanced
FetchAddLost(c) == c

\* ADDR_COUNTER.fetch_add(1): the new value of the counter (the old one is returned)
FetchAdd(c) == c + 1

\* outcome of one non-blocking send, as the environment decides it.  For a UDP
\* socket: sent, io::ErrorKind::WouldBlock, any other io::Error.  For the channel
\* to the relay actor: queued, TrySendError::Full, TrySendError::Closed.
Outcomes == {"ok", "wouldblock", "error"}

VARIABLES
    closing,        \* MagicSock.closing
    closed,         \* MagicSock.closed
    actor,          \* the main actor task: "starting", "running" or "exited"
    actor_msgs,     \* the actor's mailbox (actor_sender / msg_receiver)
    closePc,        \* where each caller of Handle::close stands
    addr_counter,   \* ADDR_COUNTER
    node_map,       \* MagicSock.node_map
    direct_addrs,   \* MagicSock.direct_addrs: [addrs, updated_at]
    now,            \* Instant::now(), in seconds
    pending_call_me_maybes,  \* MagicSock.pending_call_me_maybes: NodeId -> RelayUrl
    running,        \* DirectAddrUpdateState.running (the watch channel's value)
    want_update,    \* DirectAddrUpdateState.want_update
    update_changed, \* the actor's watch receiver has an unseen value of running
    genPc,          \* where each caller of generate stands
    genLocal,       \* the counter value fetch_add returned to each caller
    returned,       \* the addresses generate has returned, in order of return
    sendPc,         \* where the send path stands in send_or_queue_call_me_maybe
    updating,       \* direct-address updates started and not yet finalized
    store_tasks,    \* tasks spawned by store_direct_addr_update that have not run
    relay_recv,     \* the channel relay_recv_sender / relay_recv_receiver
    recv_disco_call_me_maybe,  \* the metric of that name
    dropped,        \* the fake address try_send last dropped silently
    last,           \* what the last completed call did and returned
    rpc_lock,       \* the RPC lock file of the data directory exists
    runPc,          \* where each run_with_command on that directory stands
    runRes,         \* the result each run_with_command holds or has returned
    transmit,       \* the quinn_udp::Transmit given to split_packets
    split_result,   \* what split_packets did with it, once called
    eq_args,        \* the two DiscoveredDirectAddrs compared with ==
    eq_result,      \* the result of that comparison, once made
    rc_task,        \* the relay client's actor task: "init", "running" or "exited"
    rc,             \* the relay Actor: relay_conn, is_closed, is_preferred, dials made, noted: the last NotePreferred enqueued on relay_conn
    can_ack_pings,  \* relay Actor.can_ack_pings, set by the builder
    inbox,          \* the requests sent by Client handles and not yet handled
    client_recv,    \* what the ClientReceiver has been sent, in order
    rc_initial,     \* the outcome of the actor's initial connect
    rc_last,        \* the last answered request of a Client handle
    writer_channel, \* ConnTasks.writer_channel / ConnWriterTasks.recv_msgs
    writer_task,    \* the ConnWriterTasks task: "running", "ok" or "err"
    wire,           \* the lengths of the packets written to the server
    conn_last,      \* the last Conn::send and what it returned
    relay_datagrams,\* relay_recv_sender / relay_recv_receiver with the RecvMeta of each part
    recv_metas,     \* the RecvMeta values the last poll_recv handed up
    gro_datagram,   \* a UDP datagram as the socket put it in the buffer
    gro_result,     \* what the packet loop of poll_recv made of it
    asm_in,         \* what one store_direct_addr_update finds: port mapping, report, sockets, interfaces
    asm_addrs,      \* the DirectAddr list it hands to update_direct_addresses, once assembled
    relay_map,      \* MagicSock.relay_map: the URLs of the configured relays
    my_relay,       \* MagicSock.my_relay
    home_msgs,      \* the actor's mailbox as the home-relay steps see it: netcheck reports and other messages
    home_pc,        \* the actor is "idle" between messages or "sending" to its own mailbox
    home_updating,  \* direct-address updates started by update_net_info and not finalized
    home_netchecks, \* netcheck report tasks spawned and not yet done
    relay_actor_msgs,\* the channel relay_actor_sender / relay_actor_receiver
    home_last,      \* what the actor's last step did
    io_writer_channel,\* the writer channel with the frames as handed in: [kind, id]
    io_writer_task, \* the writer task: "running", "ok" or "err"
    io_wire,        \* the frames written to the server, in order
    io_enqueued,    \* how many messages the writer channel has accepted
    io_reader_task, \* the reader task: "running", "stopping", "done" or "aborted"
    io_reader_channel,\* how many received messages wait in the reader channel
    io_recv,        \* ConnReceiver::recv: its last result, whether it ever failed, and why the reader stopped
    relay_actor_task,\* the relay actor task: "running" or "exited"
    relay_actor_cancel_token,\* relay_actor_cancel_token is cancelled
    udp_disco_task, \* the task that sends DISCO messages over UDP: "running" or "exited"
    actor_tasks,    \* Handle.actor_tasks: the tasks of the JoinSet not yet joined
    tasks_lock,     \* the caller of close that holds the lock of actor_tasks
    udp_disco_queue,\* the channel udp_disco_sender / udp_disco_receiver
    relay_disco_queue,\* the relay actor's channel as handle_ping fills it
    ping_notified,  \* the pings handle_ping has reported to the node map as sent
    ping_last,      \* the last Ping handled: the message, its source, the node map's answer, what was queued
    wake_channel,   \* the packets in the relay receive channel
    network_recv_wakers,\* network_recv_wakers holds a waker
    wake_poll,      \* where the caller of poll_recv is: ready, empty (try_recv said Empty), parked
    wake_notified,  \* the caller was woken while it was polling
    wake_actor,     \* where the actor is in its loop: idle, send, wake
    wake_todo,      \* the passthroughs the actor still has to enqueue
    wake_got,       \* the packets poll_recv_relay has handed up
    ord_started,    \* the updates that have produced a report and spawned their store task
    ord_tasks,      \* the spawned store tasks that have not stored yet
    ord_direct_addrs,\* the update whose addresses direct_addrs holds, and the addresses
    pt_pings,       \* the PingTracker: the ping data with a registered oneshot sender
    pt_tasks,       \* pt_tasks[p]: where the ping task of ping p is, or its result
    pt_registered,  \* the pings registered so far
    parts_buf,      \* the relay read handed to PacketSplitIter::new
    parts_bytes,    \* PacketSplitIter.bytes, what is left to split
    parts_out,      \* the items next has yielded so far
    parts_done      \* next has returned None

sockVars == <<closing, closed, actor, actor_msgs, closePc>>
mapVars == <<addr_counter, node_map>>
daVars == <<direct_addrs, now, pending_call_me_maybes>>
updVars == <<running, want_update, update_changed>>
genVars == <<genPc, genLocal, returned>>
recvVars == <<relay_recv, recv_disco_call_me_maybe>>
pipeVars == <<sendPc, updating, store_tasks>>
obsVars == <<dropped, last>>
cliVars == <<rpc_lock, runPc, runRes>>
splitVars == <<transmit, split_result>>
eqVars == <<eq_args, eq_result>>
relayVars == <<rc_task, rc, can_ack_pings, inbox, client_recv, rc_initial, rc_last>>
connVars == <<writer_channel, writer_task, wire, conn_last>>
metaVars == <<relay_datagrams, recv_metas>>
groVars == <<gro_datagram, gro_result>>
asmVars == <<asm_in, asm_addrs>>
homeVars == <<relay_map, my_relay, home_msgs, home_pc, home_updating, home_netchecks, relay_actor_msgs, home_last>>
ioVars == <<io_writer_channel, io_writer_task, io_wire, io_enqueued, io_reader_task, io_reader_channel, io_recv>>
taskVars == <<relay_actor_task, relay_actor_cancel_token, udp_disco_task, actor_tasks, tasks_lock>>
pingVars == <<udp_disco_queue, relay_disco_queue, ping_notified, ping_last>>
wakeVars == <<wake_channel, network_recv_wakers, wake_poll, wake_notified, wake_actor, wake_todo, wake_got>>
orderVars == <<ord_started, ord_tasks, ord_direct_addrs>>
trackerVars == <<pt_pings, pt_tasks, pt_registered>>
partsVars == <<parts_buf, parts_bytes, parts_out, parts_done>>
moreVars == <<groVars, asmVars, homeVars, ioVars, taskVars, pingVars, wakeVars, orderVars, trackerVars, partsVars>>
extVars == <<cliVars, splitVars, eqVars, relayVars, connVars, metaVars, moreVars>>
coreVars == <<sockVars, mapVars, daVars, updVars, genVars, recvVars, pipeVars, obsVars>>
oldVars == <<coreVars, cliVars, splitVars, eqVars, relayVars, connVars, metaVars>>
vars == <<coreVars, extVars>>
otherGro == <<oldVars, asmVars, homeVars, ioVars, taskVars, pingVars, wakeVars, orderVars, trackerVars, partsVars>>
otherAsm == <<oldVars, groVars, homeVars, ioVars, taskVars, pingVars, wakeVars, orderVars, trackerVars, partsVars>>
otherHome == <<oldVars, groVars, asmVars, ioVars, taskVars, pingVars, wakeVars, orderVars, trackerVars, partsVars>>
otherIo == <<oldVars, groVars, asmVars, homeVars, taskVars, pingVars, wakeVars, orderVars, trackerVars, partsVars>>
otherTask == <<oldVars, groVars, asmVars, homeVars, ioVars, pingVars, wakeVars, orderVars, trackerVars, partsVars>>
moreButTask == <<groVars, asmVars, homeVars, ioVars, pingVars, wakeVars, orderVars, trackerVars, partsVars>>
otherPing == <<oldVars, groVars, asmVars, homeVars, ioVars, taskVars, wakeVars, orderVars, trackerVars, partsVars>>
otherWake == <<oldVars, groVars, asmVars, homeVars, ioVars, taskVars, pingVars, orderVars, trackerVars, partsVars>>
otherOrder == <<oldVars, groVars, asmVars, homeVars, ioVars, taskVars, pingVars, wakeVars, trackerVars, partsVars>>
otherTracker == <<oldVars, groVars, asmVars, homeVars, ioVars, taskVars, pingVars, wakeVars, orderVars, partsVars>>
otherParts == <<oldVars, groVars, asmVars, homeVars, ioVars, taskVars, pingVars, wakeVars, orderVars, trackerVars>>

NoCall == [op |-> None]

InitSock ==
    /\ closing = FALSE
    /\ closed = FALSE
    /\ actor = "starting"
    /\ actor_msgs = <<>>
    /\ closePc = [c \in Closers |-> "idle"]

\* no fake address: the NodeState does not exist
NoQma == [ip |-> <<>>, port |-> 0]

NoNodeState == [qma |-> NoQma, relay_url |-> None, direct_addresses |-> {}]

InitMap ==
    /\ addr_counter = ADDR_COUNTER_INIT
    /\ node_map = [n \in NodeIds |-> NoNodeState]

\* DiscoveredDirectAddrs::default()
InitDirectAddrs ==
    /\ direct_addrs = [addrs |-> <<>>, updated_at |-> {}]
    /\ now = 0
    /\ pending_call_me_maybes = [n \in NodeIds |-> None]

\* DirectAddrUpdateState::new()
InitUpdate ==
    /\ running = None
    /\ want_update = None
    /\ update_changed = FALSE

InitGen ==
    /\ genPc = [p \in GenProcs |-> "idle"]
    /\ genLocal = [p \in GenProcs |-> 0]
    /\ returned = <<>>

InitRecv ==
    /\ relay_recv = <<>>
    /\ recv_disco_call_me_maybe = 0

InitPipe ==
    /\ sendPc = "idle"
    /\ updating = 0
    /\ store_tasks = 0

\* the iroh CLI: nothing runs on the data directory, no lock file exists
Runners == {"p1", "p2"}

InitCli ==
    /\ rpc_lock = FALSE
    /\ runPc = [p \in Runners |-> "idle"]
    /\ runRes = [p \in Runners |-> None]

\* no call of split_packets and no comparison of address lists is under way
InitSplit ==
    /\ transmit = [contents |-> <<>>, segment_size |-> {}]
    /\ split_result = {}

InitEq ==
    /\ eq_args = <<[addrs |-> <<>>, updated_at |-> {}], [addrs |-> <<>>, updated_at |-> {}]>>
    /\ eq_result = {}

InitCore ==
    /\ InitSock /\ InitMap /\ InitDirectAddrs /\ InitUpdate /\ InitGen /\ InitRecv /\ InitPipe
    /\ dropped = NoQma
    /\ last = NoCall

\* ClientBuilder::build: no connection, not closed, the actor task spawned
InitRelayActor ==
    /\ rc_task = "init"
    /\ rc = [relay_conn |-> None, is_closed |-> FALSE, is_preferred |-> FALSE, dials |-> 0,
             noted |-> FALSE]
    /\ inbox = <<>>
    /\ client_recv = <<>>
    /\ rc_initial = None
    /\ rc_last = [req |-> None]

\* ClientBuilder::new: can_ack_pings is off
InitRelay ==
    /\ InitRelayActor
    /\ can_ack_pings = FALSE

\* ConnBuilder::build: the writer task runs, nothing is queued or written
InitConn ==
    /\ writer_channel = <<>>
    /\ writer_task = "running"
    /\ wire = <<>>
    /\ conn_last = [op |-> None]

\* no datagram in the buffer
InitGro ==
    /\ gro_datagram = <<>>
    /\ gro_result = [done |-> FALSE, buf |-> <<>>, stun |-> <<>>, disco |-> <<>>,
                     quic_packets_count |-> 0, is_quic |-> FALSE]

\* nothing received yet
InitMetas ==
    /\ relay_datagrams = <<>>
    /\ recv_metas = [res |-> None, via |-> None, items |-> <<>>, n |-> 0]

InitOld == InitCore /\ InitCli /\ InitSplit /\ InitEq /\ InitRelay /\ InitConn /\ InitMetas
\* no update has assembled a list
InitAsm ==
    /\ asm_in = [maybe_port_mapped |-> {}, nr |-> {}, port |-> 0,
                 local_addr_v4 |-> {}, local_addr_v6 |-> {}, ips |-> <<>>]
    /\ asm_addrs = {}

\* no relay configured, nothing elected, nothing in flight
InitHome ==
    /\ relay_map = {}
    /\ my_relay = None
    /\ home_msgs = <<>>
    /\ home_pc = "idle"
    /\ home_updating = 0
    /\ home_netchecks = 0
    /\ relay_actor_msgs = <<>>
    /\ home_last = [op |-> None, stored |-> None, finalized |-> FALSE,
                    published |-> FALSE, set_home |-> None]

\* a connection just built: both tasks run, nothing sent or received
InitIo ==
    /\ io_writer_channel = <<>>
    /\ io_writer_task = "running"
    /\ io_wire = <<>>
    /\ io_enqueued = 0
    /\ io_reader_task = "running"
    /\ io_reader_channel = 0
    /\ io_recv = [last |-> None, errored |-> FALSE, cause |-> None]

\* the three tasks with_name spawns are in the JoinSet and run
InitTask ==
    /\ relay_actor_task = "running"
    /\ relay_actor_cancel_token = FALSE
    /\ udp_disco_task = "running"
    /\ actor_tasks = {"actor", "relay-actor", "udp-disco"}
    /\ tasks_lock = None

\* both queues empty, no Ping handled
InitPing ==
    /\ udp_disco_queue = <<>>
    /\ relay_disco_queue = <<>>
    /\ ping_notified = {}
    /\ ping_last = [tx_id |-> None]

\* no packet, no waker, the caller about to poll, the actor idle
InitWake ==
    /\ wake_channel = 0
    /\ network_recv_wakers = FALSE
    /\ wake_poll = "ready"
    /\ wake_notified = FALSE
    /\ wake_actor = "idle"
    /\ wake_todo = 0
    /\ wake_got = 0

\* no update has started and direct_addrs is empty
InitOrder ==
    /\ ord_started = 0
    /\ ord_tasks = {}
    /\ ord_direct_addrs = [update |-> 0, addrs |-> {}]

\* PingTracker::default and an empty ping_tasks
InitTracker ==
    /\ pt_pings = {}
    /\ pt_tasks = <<>>
    /\ pt_registered = 0

\* no relay read is being split
InitParts ==
    /\ parts_buf = <<>>
    /\ parts_bytes = <<>>
    /\ parts_out = <<>>
    /\ parts_done = FALSE

InitMore == InitGro /\ InitAsm /\ InitHome /\ InitIo /\ InitTask /\ InitPing /\ InitWake /\ InitOrder /\ InitTracker /\ InitParts
InitOtherGro == InitOld /\ InitAsm /\ InitHome /\ InitIo /\ InitTask /\ InitPing /\ InitWake /\ InitOrder /\ InitTracker /\ InitParts
InitOtherAsm == InitOld /\ InitGro /\ InitHome /\ InitIo /\ InitTask /\ InitPing /\ InitWake /\ InitOrder /\ InitTracker /\ InitParts
InitOtherHome == InitOld /\ InitGro /\ InitAsm /\ InitIo /\ InitTask /\ InitPing /\ InitWake /\ InitOrder /\ InitTracker /\ InitParts
InitOtherIo == InitOld /\ InitGro /\ InitAsm /\ InitHome /\ InitTask /\ InitPing /\ InitWake /\ InitOrder /\ InitTracker /\ InitParts
InitOtherTask == InitOld /\ InitGro /\ InitAsm /\ InitHome /\ InitIo /\ InitPing /\ InitWake /\ InitOrder /\ InitTracker /\ InitParts
InitOtherPing == InitOld /\ InitGro /\ InitAsm /\ InitHome /\ InitIo /\ InitTask /\ InitWake /\ InitOrder /\ InitTracker /\ InitParts
InitOtherWake == InitOld /\ InitGro /\ InitAsm /\ InitHome /\ InitIo /\ InitTask /\ InitPing /\ InitOrder /\ InitTracker /\ InitParts
InitOtherOrder == InitOld /\ InitGro /\ InitAsm /\ InitHome /\ InitIo /\ InitTask /\ InitPing /\ InitWake /\ InitTracker /\ InitParts
InitOtherTracker == InitOld /\ InitGro /\ InitAsm /\ InitHome /\ InitIo /\ InitTask /\ InitPing /\ InitWake /\ InitOrder /\ InitParts
InitOtherParts == InitOld /\ InitGro /\ InitAsm /\ InitHome /\ InitIo /\ InitTask /\ InitPing /\ InitWake /\ InitOrder /\ InitTracker

Init ==
    /\ InitCore
    /\ InitCli
    /\ InitSplit
    /\ InitEq
    /\ InitRelay
    /\ InitConn
    /\ InitMetas
    /\ InitMore

\* -------------------------------------------------- DirectAddrUpdateState
ENDPOINTS_FRESH_ENOUGH_DURATION == 27

\* the update state as a value, so that the handlers can thread it through
UpdateState ==
    [running |-> running, want_update |-> want_update, update_changed |-> update_changed]

is_running(u) == u.running # None

\* watch::Sender::send: the value is replaced and the receiver notified; without
\* a receiver the send is an error and the value stays.  The only receiver is
\* the one Actor::run subscribes, and it lives as long as the actor runs.
WatchSend(u, value) ==
    IF actor = "running" THEN [u EXCEPT !.running = value, !.update_changed = TRUE] ELSE u

\* running.send(Some(why)).ok()
run(u, why) == WatchSend(u, why)

\* running.send(None).ok()
finish_run(u) == WatchSend(u, None)

\* want_update.lock().take()
next_update(u) == u.want_update

\* schedule_run executed without interruption
schedule_run(u, why) ==
    IF is_running(u) THEN [u EXCEPT !.want_update = why] ELSE run(u, why)

re_stun(u, why) == schedule_run(u, why)

\* a comparison that is off by one at the boundary
fresh_enough_strict(da, t) ==
    \E time \in da.updated_at : t - time < ENDPOINTS_FRESH_ENOUGH_DURATION

\* updated_at is an Option<Instant>: the empty set or a single time
fresh_enough(da, t) ==
    \E time \in da.updated_at : t - time <= ENDPOINTS_FRESH_ENOUGH_DURATION

\* DiscoveredDirectAddrs::to_call_me_maybe_message: my_numbers
to_call_me_maybe_message(da) == [i \in 1..Len(da.addrs) |-> da.addrs[i].addr]

\* --------------------------------------------------------------- flags
is_closed_never == FALSE

is_closed == closed

is_closing == closing

\* some call of Handle::close has returned Ok(())
CloseReturnedOk == \E c \in Closers : closePc[c] = "ret_ok"

\* some call of Handle::close has returned, with Ok or with an error
CloseReturned == \E c \in Closers : closePc[c] \in {"ret_ok", "ret_err"}

\* ------------------------------------------------------------ node map
\* AddrInfo::is_empty: no relay URL and no direct address
AddrInfoIsEmpty(info) == info.relay_url = None /\ info.direct_addresses = {}

\* NodeMap::add_node_addr: the NodeState is created on first reference, with a
\* fresh fake address, and the addressing information is merged into it
NodeMapAddNodeAddr(nm, counter, addr) ==
    LET old == nm[addr.node_id]
        new == [qma |-> IF old.qma = NoQma THEN QuicMappedAddrOf(counter) ELSE old.qma,
                relay_url |-> IF addr.info.relay_url # None
                              THEN addr.info.relay_url ELSE old.relay_url,
                direct_addresses |-> old.direct_addresses \cup addr.info.direct_addresses]
    IN [nm EXCEPT ![addr.node_id] = new]

NodeMapCounterAfterAdd(nm, counter, addr) ==
    IF nm[addr.node_id].qma = NoQma THEN FetchAdd(counter) ELSE counter

\* the node whose NodeState carries the fake address dest, if any
NodeOfMappedAddr(dest) ==
    IF \E n \in NodeIds : node_map[n].qma = dest
    THEN CHOOSE n \in NodeIds : node_map[n].qma = dest
    ELSE None

\* NodeMap::get_send_addrs, the paths: a direct address of the node (confirmed or
\* a candidate) and, unless a confirmed direct path makes it unnecessary, its home
\* relay; neither only when the node has no address and no relay
SendAddrChoices(n) ==
    LET ns == node_map[n] IN
    {s \in [udp_addr : ns.direct_addresses \cup {None}, relay_url : {ns.relay_url, None}] :
        (s.udp_addr = None /\ s.relay_url = None)
            => (ns.direct_addresses = {} /\ ns.relay_url = None)}

SendPingUdp(n, a) == [kind |-> "SendPing", dst |-> [kind |-> "Udp", addr |-> a], dst_node |-> n]
SendPingRelay(n, r) == [kind |-> "SendPing", dst |-> [kind |-> "Relay", url |-> r], dst_node |-> n]
SendCallMeMaybe(n, r) == [kind |-> "SendCallMeMaybe", relay_url |-> r, dst_node |-> n]

\* NodeMap::get_send_addrs, the ping actions it hands back with the paths
PingActionLists(n) ==
    LET ns == node_map[n]
        udp == {SendPingUdp(n, a) : a \in ns.direct_addresses}
        rel == IF ns.relay_url = None THEN {} ELSE {SendPingRelay(n, ns.relay_url)}
        cmm == IF ns.relay_url = None THEN {} ELSE {SendCallMeMaybe(n, ns.relay_url)}
        one == udp \cup rel \cup cmm
    IN {<<>>} \cup {<<x>> : x \in one}
        \cup {<<c, p>> : c \in cmm, p \in udp}
        \cup {<<p, q>> : p \in udp, q \in rel}

\* ------------------------------------------------------------ send path
\* io::ErrorKind of a failed UdpConn::try_send (or of conn_for_addr)
UdpError(oc) ==
    IF oc = "ok" THEN None ELSE IF oc = "wouldblock" THEN "WouldBlock" ELSE "Other"

\* try_send_relay: the error it maps the actor channel's answer to
TrySendRelayError(oc) ==
    IF oc = "ok" THEN None
    ELSE IF oc = "wouldblock" THEN "WouldBlock" ELSE "ConnectionReset"

\* what a handler has done so far: the pending CallMeMaybes, the update state,
\* what it has handed to the transports (out), the pings it has reported to the
\* node map as sent (notified) and the error it stopped on
Doing == [pending |-> pending_call_me_maybes, upd |-> UpdateState,
          out |-> <<>>, notified |-> <<>>, err |-> None]

\* send_disco_message_relay: the message is handed to the relay actor, or dropped
send_disco_message_relay(m, what, dst, oc) ==
    IF TrySendRelayError(oc) = None
    THEN [m EXCEPT !.out = Append(@, <<"relay", what, dst>>)]
    ELSE m

send_or_queue_call_me_maybe(m, url, dst_node, oc) ==
    IF fresh_enough(direct_addrs, now)
    THEN send_disco_message_relay(m, "call-me-maybe", dst_node, oc)
    ELSE [m EXCEPT !.pending = [@ EXCEPT ![dst_node] = url],
                   !.upd = re_stun(@, "refresh-for-peering")]

\* try_send_disco_message_udp
try_send_disco_message_udp(m, what, dst_node, oc) ==
    IF is_closed THEN [m EXCEPT !.err = "NotConnected"]
    ELSE IF UdpError(oc) = None
    THEN [m EXCEPT !.out = Append(@, <<"udp", what, dst_node>>)]
    ELSE [m EXCEPT !.err = UdpError(oc)]

\* try_send_disco_message: only a failed UDP send is an error
try_send_disco_message(m, dst, what, dst_node, oc) ==
    IF dst.kind = "Udp"
    THEN try_send_disco_message_udp(m, what, dst_node, oc)
    ELSE send_disco_message_relay(m, what, dst_node, oc)

\* a try_send_ping that swallows the error of the send
try_send_ping_swallow(m, ping, oc) ==
    LET m2 == try_send_disco_message(m, ping.dst, "ping", ping.dst_node, oc) IN
    IF m2.err # None THEN [m2 EXCEPT !.err = None]
    ELSE [m2 EXCEPT !.notified = Append(@, ping.dst)]

\* try_send_ping: the node map is told of the ping unless the send was an error
try_send_ping(m, ping, oc) ==
    LET m2 == try_send_disco_message(m, ping.dst, "ping", ping.dst_node, oc) IN
    IF m2.err # None THEN m2
    ELSE [m2 EXCEPT !.notified = Append(@, ping.dst)]

\* try_send_ping_actions from action i on; oc[i] is the outcome of action i's send
RECURSIVE try_send_ping_actions(_, _, _, _)
try_send_ping_actions(m, msgs, oc, i) ==
    IF i > Len(msgs) THEN m
    ELSE IF is_closing \/ is_closed THEN m
    ELSE IF msgs[i].kind = "SendCallMeMaybe"
    THEN try_send_ping_actions(
            send_or_queue_call_me_maybe(m, msgs[i].relay_url, msgs[i].dst_node, oc[i]),
            msgs, oc, i + 1)
    ELSE LET m2 == try_send_ping(m, msgs[i], oc[i]) IN
         IF m2.err # None THEN m2 ELSE try_send_ping_actions(m2, msgs, oc, i + 1)

\* backpressure as soon as one path would block
TrySendResultAnyPending(udp_error, relay_error) ==
    IF udp_error = "WouldBlock" \/ relay_error = "WouldBlock" THEN "WouldBlock" ELSE "Ok"

\* try_send, the result once both paths have been tried
TrySendResult(udp_error, relay_error) ==
    LET udp_pending == udp_error = "WouldBlock"
        relay_pending == relay_error = "WouldBlock"
    IN IF udp_pending /\ relay_pending THEN "WouldBlock" ELSE "Ok"

\* the fake addresses the upper transport may send to: those of the nodes and
\* one more that never gets a NodeState
Dests == {QuicMappedAddrOf(c) : c \in ADDR_COUNTER_INIT..(ADDR_COUNTER_INIT + Cardinality(NodeIds))}

\* a path's part of the record of a call: not tried, sent, or the error
PathOutcome(chosen, error) == IF chosen = None THEN None ELSE IF error = None THEN "sent" ELSE error

\* try_send for a destination without NodeState reports backpressure
TrySendNoNodeStateWouldBlock == "WouldBlock"

\* try_send, the arm for a destination without NodeState
TrySendNoNodeState == "Ok"

\* the record of a try_send that returned before it looked at any path
TrySendEarly(dest, res) ==
    [op |-> "try_send", dest |-> dest, after_close_ok |-> CloseReturnedOk, res |-> res,
     udp |-> None, relay |-> None, out |-> <<>>, ping_err |-> None, notified |-> <<>>,
     actions |-> <<>>, outcomes |-> <<>>]

\* MagicSock::try_send of one datagram to dest.  msgs are the ping actions
\* get_send_addrs hands back and oc the outcomes of their sends; the paths and the
\* outcomes of the two data sends are chosen here.
TrySend(dest, msgs, oc) ==
    /\ dest \in Dests
    /\ UNCHANGED <<extVars, sockVars, mapVars, direct_addrs, now, genVars, recvVars, pipeVars>>
    /\ IF is_closed
       THEN /\ msgs = <<>>
            /\ last' = TrySendEarly(dest, "NotConnected")
            /\ UNCHANGED <<pending_call_me_maybes, updVars, dropped>>
       ELSE IF NodeOfMappedAddr(dest) = None
       THEN /\ msgs = <<>>
            /\ last' = TrySendEarly(dest, TrySendNoNodeState)
            /\ dropped' = dest
            /\ UNCHANGED <<pending_call_me_maybes, updVars>>
       ELSE LET n == NodeOfMappedAddr(dest) IN
            /\ msgs \in PingActionLists(n)
            /\ \E s \in SendAddrChoices(n) :
               \E udp_oc \in (IF s.udp_addr = None THEN {"ok"} ELSE Outcomes),
                  relay_oc \in (IF s.relay_url = None THEN {"ok"} ELSE Outcomes) :
                LET m == try_send_ping_actions(Doing, msgs, oc, 1)
                    udp_error == IF s.udp_addr = None THEN None ELSE UdpError(udp_oc)
                    relay_error == IF s.relay_url = None THEN None
                                   ELSE TrySendRelayError(relay_oc)
                IN  /\ last' = [op |-> "try_send", dest |-> dest,
                                after_close_ok |-> CloseReturnedOk,
                                res |-> TrySendResult(udp_error, relay_error),
                                udp |-> PathOutcome(s.udp_addr, udp_error),
                                relay |-> PathOutcome(s.relay_url, relay_error),
                                out |-> m.out, ping_err |-> m.err,
                                notified |-> m.notified,
                                actions |-> msgs, outcomes |-> oc]
                    /\ pending_call_me_maybes' = m.pending
                    /\ running' = m.upd.running
                    /\ want_update' = m.upd.want_update
                    /\ update_changed' = m.upd.update_changed
                    /\ dropped' = IF s.udp_addr = None /\ s.relay_url = None
                                  THEN dest ELSE dropped

\* -------------------------------------------------------- add_node_addr
\* the NodeAddr values the callers pass
NodeAddrs ==
    [node_id : NodeIds,
     info : [relay_url : RelayUrls \cup {None}, direct_addresses : SUBSET UdpAddrs]]

\* the socket addresses of our own current direct addresses
MyAddresses == {direct_addrs.addrs[i].addr : i \in 1..Len(direct_addrs.addrs)}

\* add_node_addr without the loop that removes our own addresses
PrunedInfoKeepAll(addr) == addr.info

\* add_node_addr, the loop over my_addresses: addr.info after the removals
PrunedInfo(addr) ==
    [addr.info EXCEPT !.direct_addresses = @ \ MyAddresses]

\* add_node_addr, the number of addresses the loop removed
PrunedCount(addr) == Cardinality(addr.info.direct_addresses \cap MyAddresses)

\* MagicSock::add_node_addr
AddNodeAddr(addr) ==
    LET pruned == [addr EXCEPT !.info = PrunedInfo(addr)] IN
    /\ addr \in NodeAddrs
    /\ UNCHANGED <<extVars, sockVars, daVars, updVars, genVars, recvVars, pipeVars, dropped>>
    /\ IF ~AddrInfoIsEmpty(pruned.info)
       THEN /\ node_map' = NodeMapAddNodeAddr(node_map, addr_counter, pruned)
            /\ addr_counter' = NodeMapCounterAfterAdd(node_map, addr_counter, pruned)
            /\ last' = [op |-> "add_node_addr", addr |-> addr, res |-> "Ok"]
       ELSE /\ UNCHANGED mapVars
            /\ last' = [op |-> "add_node_addr", addr |-> addr,
                        res |-> IF PrunedCount(addr) # 0 THEN "ErrPruned" ELSE "ErrEmpty"]

\* NodeMap::add_node_addr called with an empty AddrInfo, as
\* test_try_send_no_udp_addr_or_relay_url does: a NodeState without any path
AddEmptyNodeState(n) ==
    LET addr == [node_id |-> n, info |-> [relay_url |-> None, direct_addresses |-> {}]] IN
    /\ node_map' = NodeMapAddNodeAddr(node_map, addr_counter, addr)
    /\ addr_counter' = NodeMapCounterAfterAdd(node_map, addr_counter, addr)
    /\ last' = [op |-> "node_map.add_node_addr"]
    /\ UNCHANGED <<extVars, sockVars, daVars, updVars, genVars, recvVars, pipeVars, dropped>>

\* ------------------------------------------------------ actor and close
\* Actor::run enters its loop: the network monitor subscription succeeded
ActorStart ==
    /\ actor = "starting"
    /\ actor' = "running"
    /\ UNCHANGED <<extVars, closing, closed, actor_msgs, closePc, mapVars, daVars, updVars, genVars, recvVars, pipeVars, obsVars>>

\* Actor::run returns the subscription's error: the task ends and msg_receiver
\* is dropped with everything queued in it
ActorStartFails ==
    /\ actor = "starting"
    /\ actor' = "exited"
    /\ actor_msgs' = <<>>
    /\ UNCHANGED <<extVars, closing, closed, closePc, mapVars, daVars, updVars, genVars, recvVars, pipeVars, obsVars>>

\* handle_actor_message(Shutdown): the actor task returns
ActorShutdown ==
    /\ actor = "running"
    /\ actor_msgs # <<>>
    /\ Head(actor_msgs) = "Shutdown"
    /\ actor' = "exited"
    /\ actor_msgs' = <<>>
    /\ UNCHANGED <<extVars, closing, closed, closePc, mapVars, daVars, updVars, genVars, recvVars, pipeVars, obsVars>>

\* Handle::close up to the store of `closing`
CloseBegin(c) ==
    /\ closePc[c] = "idle"
    /\ IF is_closed
       THEN closePc' = [closePc EXCEPT ![c] = "ret_ok"] /\ UNCHANGED closing
       ELSE closePc' = [closePc EXCEPT ![c] = "send"] /\ closing' = TRUE
    /\ UNCHANGED <<extVars, closed, actor, actor_msgs, mapVars, daVars, updVars, genVars, recvVars, pipeVars, obsVars>>

\* Handle::close, actor_sender.send(Shutdown).await?: an error when the
\* receiver is gone
CloseSend(c) ==
    /\ closePc[c] = "send"
    /\ IF actor = "exited"
       THEN closePc' = [closePc EXCEPT ![c] = "ret_err"] /\ UNCHANGED actor_msgs
       ELSE closePc' = [closePc EXCEPT ![c] = "sent"]
            /\ actor_msgs' = Append(actor_msgs, "Shutdown")
    /\ UNCHANGED <<extVars, closing, closed, actor, mapVars, daVars, updVars, genVars, recvVars, pipeVars, obsVars>>

\* Handle::close, the store of `closed`
CloseStore(c) ==
    /\ closePc[c] = "sent"
    /\ closed' = TRUE
    /\ closePc' = [closePc EXCEPT ![c] = "join"]
    /\ UNCHANGED <<extVars, closing, actor, actor_msgs, mapVars, daVars, updVars, genVars, recvVars, pipeVars, obsVars>>

\* Handle::close, the tasks are joined for 100 ms and the rest is aborted
CloseJoin(c) ==
    /\ closePc[c] = "join"
    /\ actor' = "exited"
    /\ actor_msgs' = <<>>
    /\ closePc' = [closePc EXCEPT ![c] = "ret_ok"]
    /\ UNCHANGED <<extVars, closing, closed, mapVars, daVars, updVars, genVars, recvVars, pipeVars, obsVars>>

Close(c) == CloseBegin(c) \/ CloseSend(c) \/ CloseStore(c) \/ CloseJoin(c)

\* ------------------------------------------------------------------ Spec
\* the ping actions of the sends in Spec: none, or one ping
OnePing == {msgs \in UNION {PingActionLists(n) : n \in NodeIds} :
               Len(msgs) = 0 \/ (Len(msgs) = 1 /\ msgs[1].kind = "SendPing")}

Next ==
    \/ ActorStart
    \/ ActorStartFails
    \/ ActorShutdown
    \/ \E c \in Closers : Close(c)
    \/ \E addr \in NodeAddrs : AddNodeAddr(addr)
    \/ \E n \in NodeIds : AddEmptyNodeState(n)
    \/ \E dest \in Dests, msgs \in OnePing : \E oc \in [1..Len(msgs) -> Outcomes] :
          TrySend(dest, msgs, oc)

Spec == Init /\ [][Next]_vars

\* the last completed call is a try_send
LastIsTrySend == last.op = "try_send"

\* the node map holds a path to the node with fake address dest
HasPath(dest) ==
    /\ NodeOfMappedAddr(dest) # None
    /\ ~AddrInfoIsEmpty(node_map[NodeOfMappedAddr(dest)])

\* C1: once a call of Handle::close has returned Ok, a try_send returns
\* NotConnected and has dispatched nothing: no datagram on UDP, none to the
\* relay actor, no ping action.
C1_TrySendAfterClose ==
    (LastIsTrySend /\ last.after_close_ok) =>
        /\ last.res = "NotConnected"
        /\ last.udp = None /\ last.relay = None
        /\ last.out = <<>> /\ last.ping_err = None

\* a try_send after close returned Ok, to a node the node map has a path to
C1_Witness ==
    LastIsTrySend /\ last.after_close_ok /\ HasPath(last.dest)

\* C3: on a socket that is not closed try_send returns WouldBlock exactly when
\* the UDP send and the relay enqueue were both attempted and both answered
\* WouldBlock; in every other case it returns Ok.
C3_WouldBlockOnlyFromBoth ==
    (LastIsTrySend /\ last.res # "NotConnected") =>
        /\ last.res \in {"Ok", "WouldBlock"}
        /\ last.res = "WouldBlock" <=> (last.udp = "WouldBlock" /\ last.relay = "WouldBlock")

\* a try_send on which UDP would block and the relay channel was closed
C3_Witness ==
    /\ LastIsTrySend
    /\ last.udp = "WouldBlock" /\ last.relay = "ConnectionReset" /\ last.res = "Ok"

GenFetchAdd(p) ==
    /\ genPc[p] = "idle"
    /\ addr_counter < ADDR_COUNTER_INIT + MaxGenerate
    /\ genLocal' = [genLocal EXCEPT ![p] = addr_counter]
    /\ addr_counter' = FetchAdd(addr_counter)
    /\ genPc' = [genPc EXCEPT ![p] = "fetched"]
    /\ UNCHANGED <<extVars, sockVars, node_map, daVars, updVars, returned, recvVars, pipeVars, obsVars>>

\* QuicMappedAddr::generate, the address is built and returned
GenReturn(p) ==
    /\ genPc[p] = "fetched"
    /\ returned' = Append(returned, QuicMappedAddrOf(genLocal[p]))
    /\ genPc' = [genPc EXCEPT ![p] = "idle"]
    /\ UNCHANGED <<extVars, sockVars, mapVars, daVars, updVars, genLocal, recvVars, pipeVars, obsVars>>

NextGen == \E p \in GenProcs : GenFetchAdd(p) \/ GenReturn(p)

SpecGen == Init /\ [][NextGen]_vars

\* the addresses of the calls that have fetched their counter value and not
\* returned yet
GenInFlight == {QuicMappedAddrOf(genLocal[p]) : p \in {q \in GenProcs : genPc[q] = "fetched"}}

\* C10: every address QuicMappedAddr::generate returns has the fixed ULA prefix,
\* 16 bytes and port 12345, and differs from every address returned before and
\* from every address a concurrent call is about to return; the counter is
\* ahead of every value handed out.
C10_GenerateNeverReuses ==
    /\ \A i \in 1..Len(returned) :
        /\ SubSeq(returned[i].ip, 1, 8) = <<253, 21, 7, 10, 81, 11, 0, 0>>
        /\ Len(returned[i].ip) = 16
        /\ returned[i].port = 12345
        /\ \A j \in 1..Len(returned) : i # j => returned[i] # returned[j]
        /\ returned[i] \notin GenInFlight
        /\ returned[i] # QuicMappedAddrOf(addr_counter)
    /\ Cardinality(GenInFlight) = Cardinality({p \in GenProcs : genPc[p] = "fetched"})
    /\ \A p \in GenProcs : genPc[p] = "fetched" => genLocal[p] < addr_counter

\* two concurrent calls have returned in the opposite order of their fetches,
\* and a further call is in flight
C10_Witness ==
    /\ Len(returned) >= 3
    /\ \E i, j \in 1..Len(returned) : i < j /\ returned[i].ip[16] > returned[j].ip[16]
    /\ \E p \in GenProcs : genPc[p] = "fetched"

\* ------------------------------------------------------------ receive path
\* the number of buffers the upper transport hands to poll_recv
BufSlots == 2
\* how many results the relay_recv channel holds here
MaxRelayRecv == 2
\* how far recv_disco_call_me_maybe is followed
MaxCallMeMaybe == 2

\* what unseal_and_decode makes of a sealed box: DiscoBoxError::Open,
\* DiscoBoxError::Parse, or one of the three messages
DiscoBoxes == {"bad_key", "bad_parse", "ping", "pong", "call-me-maybe"}

\* DiscoMessageSource, and the SendAddr it converts into
UdpSource(a) == [kind |-> "Udp", addr |-> a]
RelaySource(r) == [kind |-> "Relay", url |-> r]

\* what the node map answers to a message from node n: the role handle_ping
\* finds (pings stands for needs_ping_back), the pings handle_call_me_maybe asks for
DiscoAnswers(n) ==
    [role : {"Duplicate", "NewPath"},
     pings : {<<>>} \cup {<<SendPingUdp(n, a)>> : a \in UdpAddrs}]

\* send_ping_queued: the ping goes into the UDP disco queue or to the relay
\* actor, and the node map is told when it did
send_ping_queued(m, ping, oc) ==
    IF oc = "ok"
    THEN [m EXCEPT !.out = Append(@, <<IF ping.dst.kind = "Udp" THEN "udp-queue" ELSE "relay",
                                       "ping", ping.dst_node>>),
                   !.notified = Append(@, ping.dst)]
    ELSE m

\* send_disco_message_queued
send_disco_message_queued(m, dst, what, dst_node, oc) ==
    IF oc = "ok"
    THEN [m EXCEPT !.out = Append(@, <<IF dst.kind = "Udp" THEN "udp-queue" ELSE "relay",
                                       what, dst_node>>)]
    ELSE m

\* handle_ping: a pong to where the ping came from, and the ping back
handle_ping(m, sender, src, ans, oc) ==
    IF ans.role = "Duplicate" THEN m
    ELSE LET m2 == send_disco_message_queued(m, src, "pong", sender, oc) IN
         IF ans.pings = <<>> THEN m2 ELSE send_ping_queued(m2, ans.pings[1], oc)

\* handle_disco_message, the loop over the ping actions of handle_call_me_maybe
RECURSIVE QueueCallMeMaybePings(_, _, _, _)
QueueCallMeMaybePings(m, actions, oc, i) ==
    IF i > Len(actions) THEN m
    ELSE QueueCallMeMaybePings(
            IF actions[i].kind = "SendPing" THEN send_ping_queued(m, actions[i], oc) ELSE m,
            actions, oc, i + 1)

\* a CallMeMaybe is taken from whatever source it has
CallMeMaybeAcceptedFromAny(src) == TRUE

\* handle_disco_message, the match on the source of a CallMeMaybe
CallMeMaybeAccepted(src) == src.kind = "Relay"

\* a message handle_disco_message returns on before it is counted or handled
DiscoDropped == [m |-> Doing, counted |-> FALSE, handler |-> None]

\* no DISCO message in this call
NoDisco == [box |-> None, src |-> None, d |-> DiscoDropped]

\* MagicSock::handle_disco_message: what is queued, whether
\* recv_disco_call_me_maybe is incremented, the node map handler that ran
handle_disco_message(sender, box, src, ans, oc) ==
    IF is_closed THEN DiscoDropped
    ELSE IF box \in {"bad_key", "bad_parse"} THEN DiscoDropped
    ELSE IF box = "ping"
    THEN [m |-> handle_ping(Doing, sender, src, ans, oc), counted |-> FALSE,
          handler |-> "handle_ping"]
    ELSE IF box = "pong"
    THEN [m |-> Doing, counted |-> FALSE, handler |-> "handle_pong"]
    ELSE IF CallMeMaybeAccepted(src)
    THEN [m |-> QueueCallMeMaybePings(Doing, ans.pings, oc, 1), counted |-> TRUE,
          handler |-> "handle_call_me_maybe"]
    ELSE [m |-> Doing, counted |-> TRUE, handler |-> None]

\* the record of a call that may have handled one DISCO message, and the metric
Received(op, res, n, from, disco) ==
    /\ disco.d.counted => recv_disco_call_me_maybe < MaxCallMeMaybe
    /\ recv_disco_call_me_maybe' = recv_disco_call_me_maybe + (IF disco.d.counted THEN 1 ELSE 0)
    /\ last' = [op |-> op, after_close |-> CloseReturned, res |-> res, n |-> n, from |-> from,
                box |-> disco.box, src |-> disco.src, counted |-> disco.d.counted,
                cmm_before |-> recv_disco_call_me_maybe,
                handler |-> disco.d.handler, out |-> disco.d.m.out]

\* what one packet of a UDP datagram is: STUN, QUIC from an address the node
\* map knows or does not know, or a DISCO box
UdpPackets == {"stun", "quic", "quic_unknown"} \cup DiscoBoxes

\* what polling a UDP socket yields: Pending (or no such socket, or Ready(0)),
\* an io::Error, or one datagram of one packet
UdpPolls == {"pending", "err"} \cup UdpPackets

\* the end of poll_recv_relay: the count when anything was copied, else Pending
RelayPolled(queue, num) ==
    [res |-> IF num > 0 THEN "Ready" ELSE "Pending", n |-> num, queue |-> queue]

\* poll_recv_relay, the loop over the buffers still free
RECURSIVE poll_recv_relay(_, _, _)
poll_recv_relay(queue, slots, num) ==
    IF slots = 0 \/ is_closed THEN RelayPolled(queue, num)
    ELSE IF queue = <<>>
    THEN IF actor = "exited"
         THEN [res |-> "Err", n |-> 0, queue |-> queue]
         ELSE RelayPolled(queue, num)
    ELSE IF Head(queue) = "err"
    THEN [res |-> "Err", n |-> 0, queue |-> Tail(queue)]
    ELSE poll_recv_relay(Tail(queue), slots - 1, num + 1)

\* poll_recv, the loop over the packets of the datagram read from a UDP socket
PollRecvUdp(packet, from) ==
    /\ UNCHANGED relay_recv
    /\ IF packet \in DiscoBoxes
       THEN \E n \in NodeIds, a \in UdpAddrs, oc \in Outcomes :
            \E ans \in DiscoAnswers(n) :
                Received("poll_recv", "Ready", 1, from,
                         [box |-> packet, src |-> "Udp",
                          d |-> handle_disco_message(n, packet, UdpSource(a), ans, oc)])
       ELSE Received("poll_recv", "Ready", 1, from, NoDisco)

\* MagicSock::poll_recv: UDPv4, then UDPv6, then the relay channel
PollRecv ==
    /\ UNCHANGED <<extVars, sockVars, mapVars, daVars, updVars, genVars, pipeVars, dropped>>
    /\ IF is_closed
       THEN UNCHANGED relay_recv /\ Received("poll_recv", "Pending", 0, None, NoDisco)
       ELSE \E v4 \in UdpPolls :
            IF v4 = "err"
            THEN UNCHANGED relay_recv /\ Received("poll_recv", "Err", 0, "udp4", NoDisco)
            ELSE IF v4 # "pending" THEN PollRecvUdp(v4, "udp4")
            ELSE \E v6 \in UdpPolls :
                 IF v6 = "err"
                 THEN UNCHANGED relay_recv /\ Received("poll_recv", "Err", 0, "udp6", NoDisco)
                 ELSE IF v6 # "pending" THEN PollRecvUdp(v6, "udp6")
                 ELSE LET r == poll_recv_relay(relay_recv, BufSlots, 0) IN
                      /\ relay_recv' = r.queue
                      /\ Received("poll_recv", r.res, r.n, "relay", NoDisco)

\* the parts of a relay packet as PacketSplitIter yields them: a QUIC packet, a
\* framing error, or a DISCO box
RelayParts == {"quic", "err"} \cup DiscoBoxes

\* handle_actor_message(ReceiveRelay): process_relay_read_result hands the
\* DISCO parts to handle_disco_message and the rest goes to poll_recv through
\* the relay_recv channel; a relay packet of no or of one part
ActorReceiveRelay ==
    /\ actor = "running"
    /\ UNCHANGED <<extVars, sockVars, mapVars, daVars, updVars, genVars, pipeVars, dropped>>
    /\ \/ UNCHANGED relay_recv /\ Received("receive_relay", None, 0, None, NoDisco)
       \/ \E part \in RelayParts :
            IF part \in DiscoBoxes
            THEN \E n \in NodeIds, url \in RelayUrls, oc \in Outcomes :
                 \E ans \in DiscoAnswers(n) :
                    /\ UNCHANGED relay_recv
                    /\ Received("receive_relay", None, 0, None,
                                [box |-> part, src |-> "Relay",
                                 d |-> handle_disco_message(n, part, RelaySource(url), ans, oc)])
            ELSE /\ Len(relay_recv) < MaxRelayRecv
                 /\ relay_recv' = Append(relay_recv, part)
                 /\ Received("receive_relay", None, 1, None, NoDisco)

NextRecv ==
    \/ ActorStart
    \/ ActorStartFails
    \/ ActorShutdown
    \/ \E c \in Closers : Close(c)
    \/ ActorReceiveRelay
    \/ PollRecv

SpecRecv == Init /\ [][NextRecv]_vars

\* C2: once a call of Handle::close has returned, with Ok or with an error,
\* every poll_recv returns Pending, whatever waits on the sockets and in the
\* relay channel.
C2_PollRecvAfterClose ==
    (last.op = "poll_recv" /\ last.after_close) => last.res = "Pending"

\* the last call handled a CallMeMaybe that decoded
LastIsCallMeMaybe ==
    last.op \in {"poll_recv", "receive_relay"} /\ last.box = "call-me-maybe"

\* C8: a CallMeMaybe that arrives over UDP is counted in
\* recv_disco_call_me_maybe and dropped: the node map's handler does not run
\* and nothing is queued; a CallMeMaybe that queues a ping came via a relay.
C8_CallMeMaybeOverUdpDiscarded ==
    LastIsCallMeMaybe =>
        /\ last.src = "Udp" =>
            /\ last.counted /\ recv_disco_call_me_maybe = last.cmm_before + 1
            /\ last.handler = None
            /\ last.out = <<>>
        /\ last.out # <<>> => (last.src = "Relay" /\ last.handler = "handle_call_me_maybe")

\* poll_recv has read a CallMeMaybe from a UDP socket and counted it
C8_Witness ==
    /\ last.op = "poll_recv" /\ last.box = "call-me-maybe" /\ last.src = "Udp"
    /\ last.counted /\ last.res = "Ready"

\* ------------------------------------------------- direct-address updates
\* updates followed at once, so that a second one beside the first is seen
MaxUpdating == 2
\* store tasks followed at once
MaxStoreTasks == 1
\* the clock advances in steps of TickStep seconds up to MaxTime
TickStep == 9
MaxTime == 36

\* DirectAddr
DirectAddr(a, typ) == [addr |-> a, typ |-> typ]

\* the address lists store_direct_addr_update's task comes up with
OwnAddrLists == {<<>>, <<DirectAddr("a1", "Stun")>>}

\* the elements of a list
Range(xs) == {xs[i] : i \in 1..Len(xs)}

\* the fast path of endpoint_sets_equal alone
endpoint_sets_equal_in_order(xs, ys) ==
    Len(xs) = Len(ys) /\ \A i \in 1..Len(xs) : xs[i] = ys[i]

\* endpoint_sets_equal: both empty, or equal element by element, or every
\* address is in both lists
endpoint_sets_equal(xs, ys) ==
    IF xs = <<>> /\ ys = <<>> THEN TRUE
    ELSE IF Len(xs) = Len(ys) /\ \A i \in 1..Len(xs) : xs[i] = ys[i] THEN TRUE
    ELSE LET m == [d \in Range(xs) \cup Range(ys) |->
                     (IF d \in Range(xs) THEN 1 ELSE 0) + (IF d \in Range(ys) THEN 2 ELSE 0)]
         IN \A d \in DOMAIN m : m[d] = 3

\* Watchable::update with DiscoveredDirectAddrs::new(eps): a value equal to the
\* current one (PartialEq is endpoint_sets_equal) is refused and nothing changes
WatchableUpdate(da, eps, t) ==
    IF endpoint_sets_equal(da.addrs, eps) THEN da ELSE [addrs |-> eps, updated_at |-> {t}]

\* send_queued_call_me_maybes: the pending map is drained, every entry is
\* handed to the relay actor or dropped; oc[n] is the outcome for node n
RECURSIVE send_queued_call_me_maybes(_, _, _)
send_queued_call_me_maybes(m, nodes, oc) ==
    IF nodes = {} THEN m
    ELSE LET n == CHOOSE x \in nodes : TRUE
             m2 == IF m.pending[n] = None THEN m
                   ELSE [send_disco_message_relay(m, "call-me-maybe", n, oc[n])
                            EXCEPT !.pending = [@ EXCEPT ![n] = None]]
         IN send_queued_call_me_maybes(m2, nodes \ {n}, oc)

\* finalize_direct_addrs_update, on the update state
finalize_direct_addrs_update(u) ==
    LET new_why == next_update(u)
        u1 == [u EXCEPT !.want_update = None]
    IN IF ~is_closed /\ new_why # None THEN run(u1, new_why) ELSE finish_run(u1)

\* the update state is replaced by u
SetUpdateState(u) ==
    /\ running' = u.running
    /\ want_update' = u.want_update
    /\ update_changed' = u.update_changed

\* the reasons the actor's own triggers give (timer, port map, link change)
ActorReasons == {"periodic"}

\* Actor::run, a trigger fires and the actor calls re_stun
ActorReStun(why) ==
    /\ actor = "running"
    /\ SetUpdateState(re_stun(UpdateState, why))
    /\ UNCHANGED <<extVars, sockVars, mapVars, daVars, genVars, recvVars, pipeVars, obsVars>>

\* send_or_queue_call_me_maybe on the send path, up to schedule_run's read of
\* `running`
SendOrQueueBegin(n, url) ==
    /\ sendPc = "idle"
    /\ UNCHANGED <<extVars, sockVars, mapVars, direct_addrs, now, updVars, genVars, recvVars,
                   updating, store_tasks, dropped>>
    /\ IF fresh_enough(direct_addrs, now)
       THEN \E oc \in Outcomes :
            /\ last' = [op |-> "send_or_queue",
                        out |-> send_disco_message_relay(Doing, "call-me-maybe", n, oc).out]
            /\ UNCHANGED <<pending_call_me_maybes, sendPc>>
       ELSE /\ pending_call_me_maybes' = [pending_call_me_maybes EXCEPT ![n] = url]
            /\ sendPc' = IF is_running(UpdateState) THEN "insert_want" ELSE "run"
            /\ last' = [op |-> "send_or_queue", out |-> <<>>]

\* schedule_run on the send path, after its read of `running`
SendOrQueueEnd ==
    /\ sendPc # "idle"
    /\ sendPc' = "idle"
    /\ IF sendPc = "insert_want"
       THEN SetUpdateState([UpdateState EXCEPT !.want_update = "refresh-for-peering"])
       ELSE SetUpdateState(run(UpdateState, "refresh-for-peering"))
    /\ UNCHANGED <<extVars, sockVars, mapVars, daVars, genVars, recvVars, updating, store_tasks, obsVars>>

\* Actor::run, direct_addr_update_receiver.changed(): with a reason in the
\* channel update_direct_addrs starts a netcheck; when the netcheck cannot be
\* started update_net_info finalizes the update on the spot
ActorUpdateChanged ==
    /\ actor = "running"
    /\ update_changed
    /\ UNCHANGED <<extVars, sockVars, mapVars, daVars, genVars, recvVars, sendPc, store_tasks, obsVars>>
    /\ LET seen == [UpdateState EXCEPT !.update_changed = FALSE] IN
       IF running = None
       THEN SetUpdateState(seen) /\ UNCHANGED updating
       ELSE \/ /\ updating < MaxUpdating
               /\ updating' = updating + 1
               /\ SetUpdateState(seen)
            \/ /\ SetUpdateState(finalize_direct_addrs_update(seen))
               /\ UNCHANGED updating

\* handle_actor_message(NetcheckReport): a report is stored by a task spawned
\* for it, an error is only logged; the update is finalized either way
ActorNetcheckReport(report) ==
    /\ actor = "running"
    /\ updating > 0
    /\ updating' = updating - 1
    /\ IF report = "ok"
       THEN store_tasks < MaxStoreTasks /\ store_tasks' = store_tasks + 1
       ELSE UNCHANGED store_tasks
    /\ SetUpdateState(finalize_direct_addrs_update(UpdateState))
    /\ UNCHANGED <<extVars, sockVars, mapVars, daVars, genVars, recvVars, sendPc, obsVars>>

\* a CallMeMaybe built from the addresses held before the update
queued_call_me_maybe_message_early(da, eps, t) == to_call_me_maybe_message(da)

\* the CallMeMaybe send_queued_call_me_maybes builds, after
\* update_direct_addresses: the addresses direct_addrs holds by then
queued_call_me_maybe_message(da, eps, t) ==
    to_call_me_maybe_message(WatchableUpdate(da, eps, t))

\* the task store_direct_addr_update spawns: update_direct_addresses, then
\* send_queued_call_me_maybes
StoreTaskRun(eps, oc) ==
    /\ store_tasks > 0
    /\ store_tasks' = store_tasks - 1
    /\ direct_addrs' = WatchableUpdate(direct_addrs, eps, now)
    /\ LET m == send_queued_call_me_maybes(Doing, NodeIds, oc) IN
        /\ pending_call_me_maybes' = m.pending
        /\ last' = [op |-> "store", out |-> m.out,
                    msg |-> queued_call_me_maybe_message(direct_addrs, eps, now),
                    updated |-> ~endpoint_sets_equal(direct_addrs.addrs, eps)]
    /\ UNCHANGED <<extVars, sockVars, mapVars, now, updVars, genVars, recvVars, sendPc, updating, dropped>>

\* time passes
Tick ==
    /\ now + TickStep <= MaxTime
    /\ now' = now + TickStep
    /\ UNCHANGED <<extVars, sockVars, mapVars, direct_addrs, pending_call_me_maybes, updVars, genVars,
                   recvVars, pipeVars, obsVars>>

NextUpdate ==
    \/ ActorStart
    \/ \E why \in ActorReasons : ActorReStun(why)
    \/ \E n \in NodeIds, url \in RelayUrls : SendOrQueueBegin(n, url)
    \/ SendOrQueueEnd
    \/ ActorUpdateChanged
    \/ \E report \in {"ok", "err"} : ActorNetcheckReport(report)
    \/ \E eps \in OwnAddrLists, oc \in [NodeIds -> Outcomes] : StoreTaskRun(eps, oc)
    \/ Tick

SpecUpdate == Init /\ [][NextUpdate]_vars

\* C5: at most one direct-address update is in progress at any time.
C5_SingleUpdate == updating <= 1

\* C6: an update requested while another is running is started when that one
\* is finalized: a remembered request always has a running update before it.
C6_RequestNotLost == want_update # None => running # None

C31_QueuedSentAfterStore ==
    [][\A eps \in OwnAddrLists, oc \in [NodeIds -> Outcomes] :
          StoreTaskRun(eps, oc) =>
              /\ endpoint_sets_equal(direct_addrs'.addrs, eps)
              /\ last'.msg = [i \in 1..Len(direct_addrs'.addrs) |-> direct_addrs'.addrs[i].addr]
              /\ last'.updated <=> direct_addrs'.addrs # direct_addrs.addrs
              /\ pending_call_me_maybes' = [n \in NodeIds |-> None]
              /\ Len(last'.out) = Cardinality({n \in NodeIds :
                                      pending_call_me_maybes[n] # None /\ oc[n] = "ok"})
              /\ \A i \in 1..Len(last'.out) :
                    /\ last'.out[i][2] = "call-me-maybe"
                    /\ pending_call_me_maybes[last'.out[i][3]] # None]_vars

\* a store task that found the addresses unchanged has sent a queued
\* CallMeMaybe with them
C31_Witness ==
    /\ last.op = "store" /\ Len(last.out) = 1
    /\ ~last.updated
    /\ last.msg = <<"a1">>
    /\ pending_call_me_maybes = [n \in NodeIds |-> None]

NextAddr ==
    \/ ActorStart
    \/ \E why \in ActorReasons : ActorReStun(why)
    \/ ActorUpdateChanged
    \/ \E report \in {"ok", "err"} : ActorNetcheckReport(report)
    \/ \E eps \in OwnAddrLists, oc \in [NodeIds -> Outcomes] : StoreTaskRun(eps, oc)
    \/ \E addr \in NodeAddrs : AddNodeAddr(addr)

SpecAddr == Init /\ [][NextAddr]_vars

\* the direct addresses of addr that are not our own
NotOurs(addr) == addr.info.direct_addresses \ MyAddresses

\* C7: add_node_addr hands the node map none of our own direct addresses; it
\* returns an error, and leaves the node map as it is, exactly when the
\* addressing information left after the removal is empty: no direct address
\* and no relay URL.
C7_OwnAddressesStripped ==
    [][\A addr \in NodeAddrs :
        AddNodeAddr(addr) =>
            LET n == addr.node_id IN
            IF NotOurs(addr) = {} /\ addr.info.relay_url = None
            THEN /\ last'.res \in {"ErrPruned", "ErrEmpty"}
                 /\ last'.res = "ErrPruned" <=> addr.info.direct_addresses # {}
                 /\ node_map' = node_map /\ addr_counter' = addr_counter
            ELSE /\ last'.res = "Ok"
                 /\ node_map'[n].direct_addresses = node_map[n].direct_addresses \cup NotOurs(addr)
                 /\ node_map'[n].qma # NoQma
      ]_vars

\* a NodeAddr whose direct addresses were all our own has been added for its
\* relay URL
C7_Witness ==
    /\ last.op = "add_node_addr" /\ last.res = "Ok"
    /\ last.addr.info.direct_addresses # {}
    /\ last.addr.info.direct_addresses \subseteq MyAddresses
    /\ node_map[last.addr.node_id].direct_addresses = {}

\* C7 as stated: when no direct address is left after the removal,
\* add_node_addr returns an error and the node map stays as it is.
C7_ErrorWhenNoDirectAddressLeft ==
    [][\A addr \in NodeAddrs :
        (AddNodeAddr(addr) /\ NotOurs(addr) = {}) =>
            (last'.res # "Ok" /\ node_map' = node_map)
      ]_vars
\* ------------------------------------------------ iroh-cli: commands/start
\* The lock file is read by RpcStatus::load, written by the node when it has
\* started and removed by RpcStatus::clear.  All runners use the same data
\* directory and the same RPC address.

\* RpcStatus::store, called by a node that has started: the lock file exists
RpcStatusStore == TRUE

\* RpcStatus::clear: the lock file is removed
RpcStatusClear == FALSE

\* RpcStatus::load: Running when the lock file exists, Stopped otherwise
RpcStatusLoad == IF rpc_lock THEN "Running" ELSE "Stopped"

\* a node is up on the data directory
Serving(p) == runPc[p] = "serving"

\* the RPC address is bound by the node of some runner
RpcAddrBound == \E q \in Runners : Serving(q)

SetRun(p, pc, res) ==
    /\ runPc' = [runPc EXCEPT ![p] = pc]
    /\ runRes' = [runRes EXCEPT ![p] = res]

\* run_with_command up to the call of run_with_command_inner: an error of
\* init_terminal_and_file_logging is returned on the spot
RunBegin(p, logging) ==
    /\ runPc[p] = "idle"
    /\ IF logging = "ok"
       THEN SetRun(p, "inner", None)
       ELSE SetRun(p, "returned", "Err")
    /\ UNCHANGED <<rpc_lock, coreVars, splitVars, eqVars, relayVars, connVars, metaVars, moreVars>>

\* run_with_command_inner: config.relay_map()?
RunRelayMap(p, relay_map_result) ==
    /\ runPc[p] = "inner"
    /\ IF relay_map_result = "ok"
       THEN SetRun(p, "start_node", None)
       ELSE SetRun(p, "failed", "Err")
    /\ UNCHANGED <<rpc_lock, coreVars, splitVars, eqVars, relayVars, connVars, metaVars, moreVars>>

\* start_node: RpcStatus::load and the match on the status
StartNodeLoad(p) ==
    /\ runPc[p] = "start_node"
    /\ IF RpcStatusLoad = "Running"
       THEN SetRun(p, "failed", "AlreadyRunningError")
       ELSE SetRun(p, "stopped_seen", None)
    /\ UNCHANGED <<rpc_lock, coreVars, splitVars, eqVars, relayVars, connVars, metaVars, moreVars>>

\* start_node after the status was Stopped: the secret key is read and the
\* node is built and spawned.  A node that starts binds the RPC address and
\* writes the lock file; it cannot start while another node holds the address.
StartNodeSpawn(p, spawn) ==
    /\ runPc[p] = "stopped_seen"
    /\ IF spawn = "ok"
       THEN /\ ~RpcAddrBound
            /\ rpc_lock' = RpcStatusStore
            /\ SetRun(p, "serving", None)
       ELSE /\ UNCHANGED rpc_lock
            /\ SetRun(p, "failed", "Err")
    /\ UNCHANGED <<coreVars, splitVars, eqVars, relayVars, connVars, metaVars, moreVars>>

\* run_with_command_inner from the spawn of the command task to its return:
\* the command ends or ctrl-c arrives, and the node is shut down
RunCommand(p, res) ==
    /\ runPc[p] = "serving"
    /\ SetRun(p, "node_down", res)
    /\ UNCHANGED <<rpc_lock, coreVars, splitVars, eqVars, relayVars, connVars, metaVars, moreVars>>

\* run_with_command after run_with_command_inner: the lock file is cleared
\* unless the error is an AlreadyRunningError
ClearRpc(res) == res # "AlreadyRunningError"

RunReturn(p) ==
    /\ runPc[p] \in {"failed", "node_down"}
    /\ rpc_lock' = IF ClearRpc(runRes[p]) THEN RpcStatusClear ELSE rpc_lock
    /\ SetRun(p, "returned", runRes[p])
    /\ UNCHANGED <<coreVars, splitVars, eqVars, relayVars, connVars, metaVars, moreVars>>

\* the same user runs the command again
RunAgain(p) ==
    /\ runPc[p] = "returned"
    /\ SetRun(p, "idle", None)
    /\ UNCHANGED <<rpc_lock, coreVars, splitVars, eqVars, relayVars, connVars, metaVars, moreVars>>

CliStep(p) ==
    \/ \E logging \in {"ok", "err"} : RunBegin(p, logging)
    \/ \E relay_map_result \in {"ok", "err"} : RunRelayMap(p, relay_map_result)
    \/ StartNodeLoad(p)
    \/ \E spawn \in {"ok", "err"} : StartNodeSpawn(p, spawn)
    \/ \E res \in {"Ok", "Err"} : RunCommand(p, res)
    \/ RunReturn(p)
    \/ RunAgain(p)

NextCli ==
    \/ \E p \in Runners, logging \in {"ok", "err"} : RunBegin(p, logging)
    \/ \E p \in Runners, relay_map_result \in {"ok", "err"} : RunRelayMap(p, relay_map_result)
    \/ \E p \in Runners : StartNodeLoad(p)
    \/ \E p \in Runners, spawn \in {"ok", "err"} : StartNodeSpawn(p, spawn)
    \/ \E p \in Runners, res \in {"Ok", "Err"} : RunCommand(p, res)
    \/ \E p \in Runners : RunReturn(p)
    \/ \E p \in Runners : RunAgain(p)

SpecCli == Init /\ [][NextCli]_vars

\* C11: while the node of one run_with_command is up, no step of another
\* run_with_command on the same data directory removes the lock file, and
\* another run_with_command that returns returns an error.
C11_SecondStartFails ==
    [][\A p \in Runners :
        (CliStep(p) /\ \E q \in Runners \ {p} : Serving(q)) =>
            /\ rpc_lock => rpc_lock'
            /\ runPc'[p] = "returned" => runRes'[p] # "Ok"
      ]_vars

\* C12: the lock file exists as long as the node a run_with_command started
\* is up, and it is gone when that run_with_command returns.
C12_LockWhileServing ==
    [][\A p \in Runners :
        /\ Serving(p)' => rpc_lock'
        /\ (runPc[p] = "node_down" /\ runPc'[p] = "returned") => ~rpc_lock'
      ]_vars
\* ------------------------------------------------------------ split_packets
MaxContents == 5
MaxSegmentSize == 6

Bytes == {0, 1}

\* the byte strings of at most n bytes
ByteStrings(n) == UNION {[1..k -> Bytes] : k \in 0..n}

\* quinn_udp::Transmit: the contents and the optional segment size
Transmits ==
    [contents : ByteStrings(MaxContents),
     segment_size : {{}} \cup {{n} : n \in 0..MaxSegmentSize}]

\* slice::chunks(n) for n > 0: consecutive slices of n elements, the last one
\* shorter when the length is no multiple of n; no slice for an empty list
RECURSIVE Chunks(_, _)
Chunks(contents, n) ==
    IF contents = <<>> THEN <<>>
    ELSE IF Len(contents) <= n THEN <<contents>>
    ELSE <<SubSeq(contents, 1, n)>> \o Chunks(SubSeq(contents, n + 1, Len(contents)), n)

\* split_packets that ignores the segment size
split_packets_whole(t) == [panic |-> FALSE, res |-> <<t.contents>>]

\* split_packets; chunks panics on a chunk size of 0
split_packets(t) ==
    IF t.segment_size # {}
    THEN LET segment_size == CHOOSE n \in t.segment_size : TRUE IN
         IF segment_size = 0
         THEN [panic |-> TRUE, res |-> <<>>]
         ELSE [panic |-> FALSE, res |-> Chunks(t.contents, segment_size)]
    ELSE [panic |-> FALSE, res |-> <<t.contents>>]

SplitPackets ==
    /\ split_result = {}
    /\ split_result' = {split_packets(transmit)}
    /\ UNCHANGED <<transmit, coreVars, cliVars, eqVars, relayVars, connVars, metaVars, moreVars>>

NextSplit == SplitPackets

InitSplitInputs ==
    /\ InitCore /\ InitCli /\ InitEq /\ InitRelay /\ InitConn /\ InitMetas /\ InitMore
    /\ transmit \in Transmits
    /\ split_result = {}

SpecSplit == InitSplitInputs /\ [][NextSplit]_vars

RECURSIVE Concat(_)
Concat(packets) ==
    IF packets = <<>> THEN <<>> ELSE Head(packets) \o Concat(Tail(packets))

MaxAddrs == 3

\* the direct addresses compared: two types for one socket address, and
\* another socket address
EqDirectAddrs ==
    {DirectAddr("a1", "Stun"), DirectAddr("a1", "Local"), DirectAddr("a2", "Stun")}

AddrLists(n) == UNION {[1..k -> EqDirectAddrs] : k \in 0..n}

\* DiscoveredDirectAddrs values: any list, updated never or at time 0
DiscoveredValues == [addrs : AddrLists(MaxAddrs), updated_at : {{}, {0}}]

\* impl PartialEq for DiscoveredDirectAddrs
DiscoveredDirectAddrsEq(a, b) == endpoint_sets_equal(a.addrs, b.addrs)

Compare ==
    /\ eq_result = {}
    /\ eq_result' = {DiscoveredDirectAddrsEq(eq_args[1], eq_args[2])}
    /\ UNCHANGED <<eq_args, coreVars, cliVars, splitVars, relayVars, connVars, metaVars, moreVars>>

NextEq == Compare

InitEqInputs ==
    /\ InitCore /\ InitCli /\ InitSplit /\ InitRelay /\ InitConn /\ InitMetas /\ InitMore
    /\ eq_args \in DiscoveredValues \X DiscoveredValues
    /\ eq_result = {}

SpecEq == InitEqInputs /\ [][NextEq]_vars

\* how often d occurs in the list xs
Count(xs, d) == Cardinality({i \in 1..Len(xs) : xs[i] = d})

MaxInbox == 1
MaxClientRecv == 1
MaxDials == 2

\* ActorMessage, without LocalAddr
Requests ==
    {"connect", "note_preferred", "ping", "pong", "send", "close",
     "close_for_reconnect", "is_connected"}

\* what connect_0 under its timeout comes to
DialOutcomes == {"ok", "DnsFailure"}

\* what a write to the connection's writer channel comes to
WriteOutcomes == {"ok", "err"}

\* Actor::close_for_reconnect that keeps the connection
close_for_reconnect_keep(a) == a

\* Actor::close_for_reconnect: the connection and what was enqueued on it are gone
close_for_reconnect(a) == [a EXCEPT !.relay_conn = None, !.noted = FALSE]

\* an Actor::connect whose connect_0 does not tell the server the preference
RelayConnectNoNote(a, dial) ==
    IF a.is_closed
    THEN [a |-> a, res |-> "Closed", dial |-> None]
    ELSE IF a.relay_conn = None
         THEN IF dial = "ok"
              THEN [a |-> [a EXCEPT !.relay_conn = "conn", !.dials = @ + 1],
                    res |-> "Ok", dial |-> dial]
              ELSE [a |-> [a EXCEPT !.dials = @ + 1], res |-> dial, dial |-> dial]
         ELSE [a |-> a, res |-> "Ok", dial |-> None]

\* Actor::connect: Closed on a closed client, the existing connection if there
\* is one, a dial otherwise.  connect_0 enqueues NotePreferred(true) on the new
\* connection when is_preferred is set; when that fails the dial has failed
RelayConnect(a, dial) ==
    IF a.is_closed
    THEN [a |-> a, res |-> "Closed", dial |-> None]
    ELSE IF a.relay_conn = None
         THEN IF dial = "ok"
              THEN [a |-> [a EXCEPT !.relay_conn = "conn", !.dials = @ + 1,
                                    !.noted = a.is_preferred],
                    res |-> "Ok", dial |-> dial]
              ELSE [a |-> [a EXCEPT !.dials = @ + 1], res |-> dial, dial |-> dial]
         ELSE [a |-> a, res |-> "Ok", dial |-> None]

\* Actor::send that keeps the connection after a failed write
RelaySendNoClose(a, dial, w) ==
    LET c == RelayConnect(a, dial) IN
    IF c.res # "Ok" THEN [a |-> c.a, res |-> c.res, dial |-> c.dial, write |-> None]
    ELSE [a |-> c.a, res |-> IF w # "ok" THEN "Send" ELSE "Ok", dial |-> c.dial, write |-> w]

\* Actor::send
RelaySend(a, dial, w) ==
    LET c == RelayConnect(a, dial) IN
    IF c.res # "Ok" THEN [a |-> c.a, res |-> c.res, dial |-> c.dial, write |-> None]
    ELSE IF w # "ok"
         THEN [a |-> close_for_reconnect(c.a), res |-> "Send", dial |-> c.dial, write |-> w]
         ELSE [a |-> c.a, res |-> "Ok", dial |-> c.dial, write |-> w]

\* Actor::send_pong
RelaySendPong(a, dial, w) ==
    IF can_ack_pings THEN RelaySend(a, dial, w)
    ELSE [a |-> a, res |-> "CannotAckPings", dial |-> None, write |-> None]

\* Actor::ping with the task it spawns, a pong taken to arrive in time
RelayPing(a, dial, w) ==
    LET c == RelayConnect(a, dial) IN
    IF c.res # "Ok" THEN [a |-> c.a, res |-> c.res, dial |-> c.dial, write |-> None]
    ELSE [a |-> c.a, res |-> IF w = "ok" THEN "Ok" ELSE "Send", dial |-> c.dial, write |-> w]

\* Actor::note_preferred(!is_preferred); the same value again changes nothing
RelayNotePreferred(a, w) ==
    LET b == [a EXCEPT !.is_preferred = ~@] IN
    IF b.relay_conn = None THEN [a |-> b, res |-> None, dial |-> None, write |-> None]
    ELSE IF w # "ok"
         THEN [a |-> close_for_reconnect(b), res |-> None, dial |-> None, write |-> w]
         ELSE [a |-> [b EXCEPT !.noted = b.is_preferred],
               res |-> None, dial |-> None, write |-> w]

\* Actor::close
RelayClose(a) ==
    IF ~a.is_closed THEN close_for_reconnect([a EXCEPT !.is_closed = TRUE]) ELSE a

\* Actor::is_connected
RelayIsConnected(a) == IF a.is_closed THEN FALSE ELSE a.relay_conn # None

\* Actor::recv_detail that dials when there is no connection
recv_detail_reconnecting(a, m) ==
    IF a.relay_conn # None
    THEN IF m # "err"
         THEN [a |-> a, res |-> m]
         ELSE [a |-> close_for_reconnect(a),
               res |-> IF a.is_closed THEN "Closed" ELSE "Receive"]
    ELSE [a |-> [a EXCEPT !.relay_conn = "conn", !.dials = @ + 1], res |-> None]

\* Actor::recv_detail: pending without a connection; m is what the
\* connection's receiver yields
recv_detail(a, m) ==
    IF a.relay_conn # None
    THEN IF m # "err"
         THEN [a |-> a, res |-> m]
         ELSE [a |-> close_for_reconnect(a),
               res |-> IF a.is_closed THEN "Closed" ELSE "Receive"]
    ELSE [a |-> a, res |-> None]

\* the answer a Client handle gets for req
Answer(req, r, after_close) ==
    [req |-> req, res |-> r.res, dial |-> r.dial, write |-> r.write,
     connected |-> RelayIsConnected(r.a), after_close |-> after_close,
     after_reconnect |-> rc_last.req = "close_for_reconnect",
     after_send_error |-> rc_last.req \in {"send", "pong"} /\ rc_last.res = "Send"]

\* Actor::run before its loop: the initial connection attempt, whose error
\* goes to the ClientReceiver
RelayInitialConnect(dial) ==
    /\ rc_task = "init"
    /\ LET c == RelayConnect(rc, dial) IN
        /\ rc' = c.a
        /\ rc_initial' = IF c.res = "Ok" THEN "ok" ELSE "err"
        /\ client_recv' = IF c.res = "Ok" THEN client_recv ELSE Append(client_recv, c.res)
    /\ rc_task' = "running"
    /\ UNCHANGED <<can_ack_pings, inbox, rc_last, coreVars, cliVars, splitVars, eqVars, connVars, metaVars, moreVars>>

\* Client::send_actor and Client::note_preferred: the request goes to the
\* actor's inbox; without an actor the caller gets ActorGone
ClientRequest(req) ==
    /\ IF rc_task = "exited"
       THEN /\ rc_last' = Answer(req, [a |-> rc, res |-> IF req = "note_preferred" THEN None
                                                          ELSE "ActorGone",
                                       dial |-> None, write |-> None], TRUE)
            /\ UNCHANGED inbox
       ELSE /\ Len(inbox) < MaxInbox
            /\ inbox' = Append(inbox, req)
            /\ UNCHANGED rc_last
    /\ UNCHANGED <<rc_task, rc, can_ack_pings, client_recv, rc_initial,
                   coreVars, cliVars, splitVars, eqVars, connVars, metaVars, moreVars>>

\* what the actor does with a request
RelayHandled(req, dial, w) ==
    CASE req = "connect" ->
            LET c == RelayConnect(rc, dial) IN
            [a |-> c.a, res |-> c.res, dial |-> c.dial, write |-> None]
      [] req = "note_preferred" -> RelayNotePreferred(rc, w)
      [] req = "ping" -> RelayPing(rc, dial, w)
      [] req = "pong" -> RelaySendPong(rc, dial, w)
      [] req = "send" -> RelaySend(rc, dial, w)
      [] req = "close" ->
            [a |-> RelayClose(rc), res |-> "Ok", dial |-> None, write |-> None]
      [] req = "close_for_reconnect" ->
            [a |-> close_for_reconnect(rc), res |-> "Ok", dial |-> None, write |-> None]
      [] req = "is_connected" ->
            [a |-> rc, res |-> IF RelayIsConnected(rc) THEN "true" ELSE "false",
             dial |-> None, write |-> None]

\* Actor::run, the inbox branch of the loop; Close ends the task and with it
\* the inbox and the requests in it
RelayHandle(dial, w) ==
    /\ rc_task = "running"
    /\ inbox # <<>>
    /\ LET req == Head(inbox)
           r == RelayHandled(req, dial, w) IN
        /\ r.a.dials <= MaxDials
        /\ rc' = r.a
        /\ rc_last' = Answer(req, r, FALSE)
        /\ IF req = "close"
           THEN rc_task' = "exited" /\ inbox' = <<>>
           ELSE rc_task' = rc_task /\ inbox' = Tail(inbox)
    /\ UNCHANGED <<can_ack_pings, client_recv, rc_initial, coreVars, cliVars, splitVars, eqVars, connVars, metaVars, moreVars>>

\* Actor::run, the recv_detail branch of the loop: a pong ends its ping, every
\* other result goes to the ClientReceiver
RelayRecv(m) ==
    /\ rc_task = "running"
    /\ LET r == recv_detail(rc, m) IN
        /\ rc' = r.a
        /\ IF r.res \in {None, "pong"}
           THEN UNCHANGED client_recv
           ELSE /\ Len(client_recv) < MaxClientRecv
                /\ client_recv' = Append(client_recv, r.res)
    /\ UNCHANGED <<rc_task, can_ack_pings, inbox, rc_initial, rc_last,
                   coreVars, cliVars, splitVars, eqVars, connVars, metaVars, moreVars>>

NextRelay ==
    \/ \E dial \in DialOutcomes : RelayInitialConnect(dial)
    \/ \E req \in Requests : ClientRequest(req)
    \/ \E dial \in DialOutcomes, w \in WriteOutcomes : RelayHandle(dial, w)
    \/ \E m \in {"msg", "pong", "err"} : RelayRecv(m)

\* a client built with or without can_ack_pings
InitRelayInputs ==
    /\ InitCore /\ InitCli /\ InitSplit /\ InitEq /\ InitConn /\ InitMetas /\ InitMore
    /\ InitRelayActor
    /\ can_ack_pings \in BOOLEAN

SpecRelay == InitRelayInputs /\ [][NextRelay]_vars

\* C39: while the relay client has a connection, the last NotePreferred value
\* enqueued on it (false when none was) is the client's is_preferred flag.
C39_PreferenceKnownToServer ==
    rc.relay_conn # None => rc.noted = rc.is_preferred

\* a preferred client that has dialed again after close_for_reconnect: the
\* connect has told the new connection the preference
C39_Witness ==
    /\ rc_last.req = "connect"
    /\ rc_last.dial = "ok" /\ rc_last.after_reconnect
    /\ rc.relay_conn # None /\ rc.is_preferred /\ rc.noted
    /\ rc.dials = 2

\* the requests whose handler calls Actor::connect
Connecting == {"connect", "ping", "pong", "send"}

\* C15: the error of a failed initial connect is the first thing the
\* ClientReceiver is sent, and after the initial attempt the client dials only
\* while it handles a connect, ping, send or send_pong request.
C15_NoReconnectLoop ==
    [][/\ rc_initial' = "err" =>
            (client_recv' # <<>> /\ client_recv'[1] \in DialOutcomes \ {"ok"})
       /\ rc'.dials # rc.dials =>
            \/ rc_task = "init"
            \/ (inbox # <<>> /\ Head(inbox) \in Connecting /\ rc_last'.req = Head(inbox))
      ]_vars

\* the initial connect failed, and a later send dialled again
C15_Witness ==
    /\ rc_initial = "err"
    /\ rc.dials = 2
    /\ rc_last.req = "send" /\ rc_last.dial = "ok"

\* C16: a connect or send made on a handle of a client that has been closed
\* returns ClientError::Closed.
C16_ClosedAfterClose ==
    (rc_last.req \in {"connect", "send"} /\ rc_last.after_close) => rc_last.res = "Closed"

\* the last answered request came right after a close_for_reconnect
AfterCloseForReconnect ==
    rc_last.req # None /\ ~rc_last.after_close /\ rc_last.after_reconnect

\* C17: right after close_for_reconnect the client is open and not connected;
\* a connect, ping or send, and a send_pong of a client that can ack pings,
\* dials; a send_pong of a client that cannot returns CannotAckPings without a
\* dial; after a successful dial the client is connected again unless the
\* write of the send or pong failed, which drops the connection once more.
C17_ReconnectOnNextUse ==
    /\ (rc_last.req = "close_for_reconnect" /\ ~rc_last.after_close) =>
        (rc_task = "running" /\ ~rc.is_closed /\ ~rc_last.connected)
    /\ AfterCloseForReconnect =>
        /\ rc_last.res \notin {"Closed", "ActorGone"}
        /\ rc_last.req = "is_connected" => rc_last.res = "false"
        /\ rc_last.req \in {"connect", "ping", "send"} => rc_last.dial # None
        /\ rc_last.req = "pong" =>
            IF can_ack_pings THEN rc_last.dial # None
            ELSE rc_last.dial = None /\ rc_last.res = "CannotAckPings"
        /\ rc_last.req \notin Connecting => rc_last.dial = None
        /\ rc_last.dial = "ok" =>
            (rc_last.connected <=>
                ~(rc_last.req \in {"send", "pong"} /\ rc_last.write = "err"))

\* a send after close_for_reconnect that dialled and left the client connected
C17_Witness ==
    /\ AfterCloseForReconnect
    /\ rc_last.req = "send" /\ rc_last.dial = "ok" /\ rc_last.res = "Ok"
    /\ rc_last.connected
    /\ rc.dials = 2

\* C17 as stated: the send, connect, ping or send_pong that follows a
\* close_for_reconnect dials, and after a successful dial the client is
\* connected.
C17_NextRequestDials ==
    (AfterCloseForReconnect /\ rc_last.req \in Connecting) =>
        /\ rc_last.dial # None
        /\ rc_last.dial = "ok" => rc_last.connected

\* C26: a send or send_pong whose write to the connection fails returns
\* ClientError::Send with the connection closed, so that the client is not
\* connected afterwards, and the next request that needs a connection dials.
C26_SendErrorCloses ==
    /\ (rc_last.req \in {"send", "pong"} /\ rc_last.write = "err") =>
        /\ rc_last.res = "Send"
        /\ ~rc_last.connected
    /\ (rc_last.req \in {"send", "pong"} /\ rc_last.res = "Send") =>
        /\ rc_last.write = "err"
        /\ rc.relay_conn = None
    /\ (rc_last.req \in Connecting /\ rc_last.after_send_error /\ ~rc_last.after_close
          /\ rc_last.res # "CannotAckPings") =>
        rc_last.dial # None

\* a send failed on an existing connection, and the send after it dialled
\* and went through
C26_Witness ==
    /\ rc_last.req = "send" /\ rc_last.dial = "ok" /\ rc_last.res = "Ok"
    /\ rc_last.after_send_error
    /\ rc_last.connected

\* ------------------------------------------------- relay connection (Conn)
\* relay::codec::MAX_PACKET_SIZE and PER_CLIENT_SEND_QUEUE_DEPTH, scaled down
MAX_PACKET_SIZE == 2
PER_CLIENT_SEND_QUEUE_DEPTH == 2
MaxWire == 2

\* packet lengths around the limit
PacketLens == (MAX_PACKET_SIZE - 1)..(MAX_PACKET_SIZE + 1)

\* the writer task has ended, its receiver is dropped
WriterFinished == writer_task # "running"

\* Conn::send: the packet is handed to the writer channel; an error only when
\* the channel is closed
ConnSend(len) ==
    /\ IF WriterFinished
       THEN /\ conn_last' = [op |-> "send", len |-> len, res |-> "Err", alive |-> FALSE]
            /\ UNCHANGED writer_channel
       ELSE /\ Len(writer_channel) < PER_CLIENT_SEND_QUEUE_DEPTH
            /\ writer_channel' = Append(writer_channel, len)
            /\ conn_last' = [op |-> "send", len |-> len, res |-> "Ok", alive |-> TRUE]
    /\ UNCHANGED <<writer_task, wire, coreVars, cliVars, splitVars, eqVars, relayVars, metaVars, moreVars>>

\* Conn::close: Shutdown goes to the writer task (-1 in the channel)
Shutdown == 0 - 1

ConnClose ==
    /\ ~WriterFinished
    /\ Len(writer_channel) < PER_CLIENT_SEND_QUEUE_DEPTH
    /\ writer_channel' = Append(writer_channel, Shutdown)
    /\ UNCHANGED <<writer_task, wire, conn_last, coreVars, cliVars, splitVars, eqVars, relayVars, metaVars, moreVars>>

\* send_packet: too big a packet is an error before anything is written; no
\* rate limiter is configured; io is what the writes to the server come to
send_packet(len, io) ==
    IF ~(len <= MAX_PACKET_SIZE) THEN [res |-> "err", written |-> <<>>]
    ELSE IF io # "ok" THEN [res |-> "err", written |-> <<>>]
    ELSE [res |-> "ok", written |-> <<len>>]

\* ConnWriterTasks::run, one message: an error ends the task and drops the
\* channel with what is in it
WriterRun(io) ==
    /\ ~WriterFinished
    /\ writer_channel # <<>>
    /\ LET msg == Head(writer_channel) IN
       IF msg = Shutdown
       THEN writer_task' = "ok" /\ writer_channel' = <<>> /\ UNCHANGED wire
       ELSE LET r == send_packet(msg, io) IN
            /\ Len(wire) + Len(r.written) <= MaxWire
            /\ wire' = wire \o r.written
            /\ IF r.res = "ok"
               THEN writer_task' = writer_task /\ writer_channel' = Tail(writer_channel)
               ELSE writer_task' = "err" /\ writer_channel' = <<>>
    /\ UNCHANGED <<conn_last, coreVars, cliVars, splitVars, eqVars, relayVars, metaVars, moreVars>>

NextConn ==
    \/ \E len \in PacketLens : ConnSend(len)
    \/ ConnClose
    \/ \E io \in {"ok", "err"} : WriterRun(io)

SpecConn == Init /\ [][NextConn]_vars

\* C18: on a connection whose writer runs, Conn::send of a packet of
\* MAX_PACKET_SIZE bytes returns Ok and Conn::send of a larger packet returns
\* an error; no packet larger than MAX_PACKET_SIZE is written to the server.
C18_OversizedSendErrors ==
    /\ (conn_last.op = "send" /\ conn_last.alive) =>
        /\ conn_last.len = MAX_PACKET_SIZE => conn_last.res = "Ok"
        /\ conn_last.len > MAX_PACKET_SIZE => conn_last.res = "Err"
    /\ \A i \in 1..Len(wire) : wire[i] <= MAX_PACKET_SIZE
\* ---------------------------------------------------- Handle::close, again
\* the caller c of Handle::close puts its Shutdown in the actor's mailbox
SendsShutdown(c) == closePc[c] = "send" /\ closePc'[c] = "sent"

\* C19: only the first Handle::close does anything: a close that runs after
\* or next to another one returns Ok and sends no Shutdown of its own, so no
\* call returns an error and no Shutdown is sent while another caller has
\* sent one.
C19_OnlyFirstCloseActs == [][\A c \in Closers :
    /\ closePc'[c] # "ret_err"
    /\ SendsShutdown(c) => \A d \in Closers \ {c} : closePc[d] \in {"idle", "send"}]_vars
\* ----------------------------------------- poll_recv, the RecvMeta handed up
\* the peers that send to us
MetaNodes == {"n1", "n2"}

\* the peer that sends over the relay, the peer that sends over UDP
RelaySenders == {"n1"}
UdpSenders == {"n2"}

\* the real socket address a peer sends from
SocketAddrOfNode(n) == [ip |-> <<192, 0, 2, IF n = "n1" THEN 1 ELSE 2>>, port |-> 7000]

\* how many packets one UDP datagram (GRO) has, how many parts a relay packet
GroLens == {1, 2}
RelayLens == {0, 1, 2}

\* NodeMap::add_node_addr as discovery calls it: the home relay of the peer
\* and its direct addresses
MetaAddrInfos(n) ==
    [relay_url : RelayUrls, direct_addresses : SUBSET {SocketAddrOfNode(n)}]

\* NodeMap::receive_udp: the node that has the source among its addresses, and
\* its fake address
receive_udp(nm, src) ==
    LET ns == {n \in DOMAIN nm : nm[n].qma # NoQma /\ src \in nm[n].direct_addresses} IN
    IF ns = {} THEN {}
    ELSE LET n == CHOOSE x \in ns : TRUE IN {[node_id |-> n, qma |-> nm[n].qma]}

\* NodeMap::receive_relay: the NodeState of the sender, created when this is
\* the first packet seen from it
receive_relay(nm, counter, url, src) ==
    NodeMapAddNodeAddr(nm, counter,
        [node_id |-> src, info |-> [relay_url |-> url, direct_addresses |-> {}]])

\* the packets of a datagram: how many of them handle_disco_message counts
DiscoCounted(packets, source) ==
    Cardinality({i \in 1..Len(packets) :
        /\ packets[i] \in DiscoBoxes
        /\ \E n \in NodeIds, oc \in Outcomes : \E ans \in DiscoAnswers(n) :
              handle_disco_message(n, packets[i], source, ans, oc).counted})

\* a datagram holds a packet that is neither STUN nor DISCO
IsQuic(packets) == \E i \in 1..Len(packets) : packets[i] = "quic"

\* poll_recv that hands up a datagram from an unknown source as it came
remap_addr_keep(meta, packets, found) ==
    IF IsQuic(packets)
    THEN IF found = {} THEN meta
         ELSE [meta EXCEPT !.addr = (CHOOSE f \in found : TRUE).qma]
    ELSE [meta EXCEPT !.len = 0]

\* poll_recv, "remap addr": the fake address for the source, or length 0
remap_addr(meta, packets, found) ==
    IF IsQuic(packets)
    THEN IF found = {} THEN [meta EXCEPT !.len = 0]
         ELSE [meta EXCEPT !.addr = (CHOOSE f \in found : TRUE).qma]
    ELSE [meta EXCEPT !.len = 0]

\* what a UDP datagram is made of: STUN, QUIC and DISCO packets
GroPackets == {"stun", "quic", "call-me-maybe"}
UdpDatagrams == UNION {[1..k -> GroPackets] : k \in GroLens}

\* NodeMap::add_node_addr for a peer
MetaAddNode(n, info) ==
    LET addr == [node_id |-> n, info |-> info] IN
    /\ node_map' = NodeMapAddNodeAddr(node_map, addr_counter, addr)
    /\ addr_counter' = NodeMapCounterAfterAdd(node_map, addr_counter, addr)
    /\ UNCHANGED <<extVars, sockVars, daVars, updVars, genVars, recvVars, pipeVars, obsVars>>

\* a count of the slots that still carry a packet for the transport
recv_count_nonzero(items) ==
    Cardinality({i \in 1..Len(items) : items[i].meta.len # 0})

\* Poll::Ready(Ok(msgs)), Poll::Ready(Ok(num_msgs)): the number of meta slots
\* filled, msgs as the socket returned it and num_msgs as poll_recv_relay
\* counted it
recv_count(items) == Len(items)

\* MagicSock::poll_recv with a datagram on a UDP socket
PollRecvUdpMeta(sender, packets) ==
    LET src == SocketAddrOfNode(sender)
        meta == [len |-> Len(packets), stride |-> 1, addr |-> src]
        found == receive_udp(node_map, src)
        counted == DiscoCounted(packets, UdpSource(src))
    IN
    /\ IF is_closed
       THEN /\ recv_metas' = [res |-> "Pending", via |-> None, items |-> <<>>, n |-> 0]
            /\ UNCHANGED recv_disco_call_me_maybe
       ELSE /\ recv_disco_call_me_maybe + counted <= MaxCallMeMaybe
            /\ recv_disco_call_me_maybe' = recv_disco_call_me_maybe + counted
            /\ LET items == <<[meta |-> remap_addr(meta, packets, found), sender |-> sender,
                                src |-> src, quic |-> IsQuic(packets), known |-> found # {}]>>
               IN recv_metas' = [res |-> "Ready", via |-> "udp", items |-> items,
                                 n |-> recv_count(items)]
    /\ UNCHANGED <<sockVars, mapVars, daVars, updVars, genVars, relay_recv, pipeVars, obsVars,
                   relay_datagrams, cliVars, splitVars, eqVars, relayVars, connVars, moreVars>>

\* what PacketSplitIter yields: a QUIC packet, a part of length 0, a framing
\* error, a DISCO box
MetaParts == {"quic", "empty", "err", "call-me-maybe"}
\* PacketSplitIter::fail clears the buffer: nothing follows an error
RelayPackets ==
    {p \in UNION {[1..k -> MetaParts] : k \in RelayLens} :
        \A i \in 1..(Len(p) - 1) : p[i] # "err"}

\* an io::Error in the channel
RelayRecvErr == [ok |-> FALSE]

\* process_relay_read_result, the loop over the parts: DISCO parts are not
\* bubbled up, each other part gets a RecvMeta with the fake address
RECURSIVE RelayRecvResults(_, _, _, _)
RelayRecvResults(parts, src, qma, i) ==
    IF i > Len(parts) THEN <<>>
    ELSE LET rest == RelayRecvResults(parts, src, qma, i + 1) IN
         IF parts[i] \in DiscoBoxes THEN rest
         ELSE IF parts[i] = "err" THEN <<RelayRecvErr>> \o rest
         ELSE <<[ok |-> TRUE, node_id |-> src,
                 meta |-> [len |-> IF parts[i] = "empty" THEN 0 ELSE 1,
                           stride |-> IF parts[i] = "empty" THEN 0 ELSE 1,
                           addr |-> qma]]>> \o rest

\* handle_actor_message(ReceiveRelay): process_relay_read_result and the send
\* of each result to poll_recv
ActorReceiveRelayMeta(src, url, parts) ==
    /\ actor = "running"
    /\ IF parts = <<>>
       THEN UNCHANGED <<mapVars, relay_datagrams, recv_disco_call_me_maybe>>
       ELSE LET nm == receive_relay(node_map, addr_counter, url, src)
                out == RelayRecvResults(parts, src, nm[src].qma, 1)
                counted == DiscoCounted(parts, RelaySource(url))
            IN /\ Len(relay_datagrams) + Len(out) <= MaxRelayRecv
               /\ recv_disco_call_me_maybe + counted <= MaxCallMeMaybe
               /\ node_map' = nm
               /\ addr_counter' = NodeMapCounterAfterAdd(node_map, addr_counter,
                     [node_id |-> src, info |-> [relay_url |-> url, direct_addresses |-> {}]])
               /\ relay_datagrams' = relay_datagrams \o out
               /\ recv_disco_call_me_maybe' = recv_disco_call_me_maybe + counted
    /\ UNCHANGED <<sockVars, daVars, updVars, genVars, relay_recv, pipeVars, obsVars,
                   recv_metas, cliVars, splitVars, eqVars, relayVars, connVars, moreVars>>

\* poll_recv_relay with the RecvMeta of each datagram, the loop over the
\* buffers still free
RECURSIVE poll_recv_relay_metas(_, _, _)
poll_recv_relay_metas(queue, slots, items) ==
    IF slots = 0 \/ is_closed \/ (queue = <<>> /\ actor # "exited")
    THEN [res |-> IF items # <<>> THEN "Ready" ELSE "Pending", items |-> items, queue |-> queue]
    ELSE IF queue = <<>>
    THEN [res |-> "Err", items |-> <<>>, queue |-> queue]
    ELSE IF ~Head(queue).ok
    THEN [res |-> "Err", items |-> <<>>, queue |-> Tail(queue)]
    ELSE poll_recv_relay_metas(Tail(queue), slots - 1,
            Append(items, [meta |-> Head(queue).meta, sender |-> Head(queue).node_id,
                           src |-> SocketAddrOfNode(Head(queue).node_id),
                           quic |-> TRUE, known |-> TRUE]))

\* MagicSock::poll_recv with nothing on the UDP sockets
PollRecvRelayMeta ==
    /\ IF is_closed
       THEN /\ recv_metas' = [res |-> "Pending", via |-> None, items |-> <<>>, n |-> 0]
            /\ UNCHANGED relay_datagrams
       ELSE LET r == poll_recv_relay_metas(relay_datagrams, BufSlots, <<>>) IN
            /\ relay_datagrams' = r.queue
            /\ recv_metas' = [res |-> r.res, via |-> "relay", items |-> r.items,
                              n |-> recv_count(r.items)]
    /\ UNCHANGED <<coreVars, cliVars, splitVars, eqVars, relayVars, connVars, moreVars>>

NextMeta ==
    \/ ActorStart
    \/ ActorStartFails
    \/ \E n \in MetaNodes : \E info \in MetaAddrInfos(n) : MetaAddNode(n, info)
    \/ \E n \in UdpSenders, packets \in UdpDatagrams : PollRecvUdpMeta(n, packets)
    \/ \E n \in RelaySenders, url \in RelayUrls, parts \in RelayPackets :
          ActorReceiveRelayMeta(n, url, parts)
    \/ PollRecvRelayMeta

\* the socket as constructed, the node map over the peers
InitMetaInputs ==
    /\ InitSock /\ InitDirectAddrs /\ InitUpdate /\ InitGen /\ InitRecv /\ InitPipe
    /\ dropped = NoQma
    /\ last = NoCall
    /\ addr_counter = ADDR_COUNTER_INIT
    /\ node_map = [n \in MetaNodes |-> NoNodeState]
    /\ InitCli /\ InitSplit /\ InitEq /\ InitRelay /\ InitConn /\ InitMetas /\ InitMore

SpecMeta == InitMetaInputs /\ [][NextMeta]_vars

\* C20: every datagram poll_recv hands up with a length other than 0, from UDP
\* or from a relay, has as meta.addr the fake address of the node map for the
\* node that sent it, not the address it came from; a UDP datagram from a
\* source without node state, or without a QUIC packet, has meta.len = 0.
C20_MappedSource ==
    recv_metas.res = "Ready" =>
        \A i \in 1..Len(recv_metas.items) :
            LET m == recv_metas.items[i] IN
            /\ m.meta.len # 0 =>
                /\ m.meta.addr = node_map[m.sender].qma
                /\ m.meta.addr # NoQma
                /\ m.meta.addr # m.src
            /\ (recv_metas.via = "udp" /\ (~m.known \/ ~m.quic)) => m.meta.len = 0

\* a GRO datagram of two packets, one of them QUIC, came over UDP from the
\* second peer of the node map and a datagram of the first waits in the relay
\* channel
C20_Witness ==
    /\ recv_metas.res = "Ready" /\ recv_metas.via = "udp"
    /\ recv_metas.items[1].sender = "n2"
    /\ recv_metas.items[1].meta.len = 2
    /\ recv_metas.items[1].meta.addr = QuicMappedAddrOf(ADDR_COUNTER_INIT + 1)
    /\ relay_datagrams # <<>> /\ Head(relay_datagrams).ok
    /\ Head(relay_datagrams).meta.addr = QuicMappedAddrOf(ADDR_COUNTER_INIT)

\* C21: the count poll_recv returns is the number of meta slots it filled,
\* for a UDP read and for a relay read; a slot of length 0 (a UDP datagram
\* without a QUIC packet or without node state for its source, an empty part
\* of a relay packet) is counted like any other.
C21_CountIsSlotsFilled ==
    recv_metas.res = "Ready" =>
        /\ recv_metas.n = Len(recv_metas.items)
        /\ recv_metas.n >= recv_count_nonzero(recv_metas.items)

\* a UDP read of one datagram without a QUIC packet returned the count 1
C21_Witness ==
    /\ recv_metas.res = "Ready" /\ recv_metas.via = "udp"
    /\ recv_metas.n = 1
    /\ ~recv_metas.items[1].quic
    /\ recv_metas.items[1].meta.len = 0

\* C21 as claimed: the count poll_recv returns is the number of returned meta
\* slots with a length other than 0.
C21_CountIsPacketsHandedUp ==
    recv_metas.res = "Ready" => recv_metas.n = recv_count_nonzero(recv_metas.items)
\* --------------------------------------- poll_recv, the packets of a datagram
\* packets in one GRO datagram
MaxStridePackets == 3

\* a packet: what stun::is and disco::source_and_box make of it, and its
\* first byte (a STUN message type, the DISCO magic, a QUIC header byte)
GroPacketValues ==
    {[kind |-> "stun", b0 |-> 0], [kind |-> "stun", b0 |-> 1],
     [kind |-> "disco", b0 |-> 92],
     [kind |-> "quic", b0 |-> 64], [kind |-> "quic", b0 |-> 192]}

GroDatagrams == UNION {[1..k -> GroPacketValues] : k \in 1..MaxStridePackets}

\* stun::is
stun_is(packet) == packet.kind = "stun"

\* disco::source_and_box(packet).is_some()
disco_source_and_box(packet) == packet.kind = "disco"

\* a packet left as it is
zero_first_byte_skip(packet) == packet

\* packet[0] = 0u8
zero_first_byte(packet) == [packet EXCEPT !.b0 = 0]

\* poll_recv, the loop over buf[..meta.len].chunks_mut(meta.stride)
RECURSIVE PacketLoop(_, _, _)
PacketLoop(packets, i, acc) ==
    IF i > Len(packets) THEN acc
    ELSE LET p == packets[i] IN
         IF stun_is(p)
         THEN PacketLoop(packets, i + 1,
                [acc EXCEPT !.stun = Append(@, [i |-> i, packet |-> p]),
                            !.buf = Append(@, zero_first_byte(p))])
         ELSE IF disco_source_and_box(p)
         THEN PacketLoop(packets, i + 1,
                [acc EXCEPT !.disco = Append(@, [i |-> i, packet |-> p]),
                            !.buf = Append(@, zero_first_byte(p))])
         ELSE PacketLoop(packets, i + 1,
                [acc EXCEPT !.quic_packets_count = @ + 1, !.is_quic = TRUE,
                            !.buf = Append(@, p)])

\* poll_recv on one datagram: receive_stun_packet and handle_disco_message get
\* the packets in stun and disco, buf is the buffer handed up
GroPollRecv ==
    /\ ~gro_result.done
    /\ gro_result' = PacketLoop(gro_datagram, 1, [gro_result EXCEPT !.done = TRUE])
    /\ UNCHANGED <<gro_datagram, otherGro>>

NextGro == GroPollRecv

\* a datagram read from a UDP socket
InitGroInputs ==
    /\ InitOtherGro
    /\ gro_datagram \in GroDatagrams
    /\ gro_result = [done |-> FALSE, buf |-> <<>>, stun |-> <<>>, disco |-> <<>>,
                     quic_packets_count |-> 0, is_quic |-> FALSE]

SpecGro == InitGroInputs /\ [][NextGro]_vars

\* the calls in calls that were made for packet i
CallsFor(calls, i) == {j \in 1..Len(calls) : calls[j].i = i}

\* C22: of the packets of a UDP datagram, each STUN packet is passed to
\* netcheck once and to nothing else, each DISCO packet to the DISCO handler
\* once and to nothing else, both with the bytes they arrived with; in the
\* buffer handed up every such packet has first byte 0 and every QUIC packet
\* is as it arrived, passed to neither.
C22_PacketsClassified ==
    gro_result.done =>
        /\ Len(gro_result.buf) = Len(gro_datagram)
        /\ \A i \in 1..Len(gro_datagram) :
            LET p == gro_datagram[i]
                stun == CallsFor(gro_result.stun, i)
                disco == CallsFor(gro_result.disco, i) IN
            /\ p.kind = "stun" =>
                /\ Cardinality(stun) = 1 /\ disco = {}
                /\ \A j \in stun : gro_result.stun[j].packet = p
                /\ gro_result.buf[i].b0 = 0
            /\ p.kind = "disco" =>
                /\ Cardinality(disco) = 1 /\ stun = {}
                /\ \A j \in disco : gro_result.disco[j].packet = p
                /\ gro_result.buf[i].b0 = 0
            /\ p.kind = "quic" =>
                /\ stun = {} /\ disco = {}
                /\ gro_result.buf[i] = p

\* a datagram of a STUN, a DISCO and a QUIC packet went through the loop
C22_Witness ==
    /\ gro_result.done
    /\ Len(gro_datagram) = 3
    /\ gro_datagram[1] = [kind |-> "stun", b0 |-> 1]
    /\ gro_datagram[2].kind = "disco"
    /\ gro_datagram[3].kind = "quic"
\* ------------------------------------------- updated_at of the direct addresses
\* the task that calls update_direct_addresses has run in this step
StoreTaskRan == store_tasks' = store_tasks - 1

\* C24: after every update_direct_addresses call, also one whose addresses
\* equal the ones already stored, updated_at is the time of that call and the
\* stored value is fresh_enough.
C24_UpdatedAtIsLastUpdate == [][StoreTaskRan =>
    /\ direct_addrs'.updated_at = {now}
    /\ fresh_enough(direct_addrs', now)]_vars

\* ------------------------------------------- store_direct_addr_update

\* SocketAddr
SocketAddr(ip, port) == [ip |-> ip, port |-> port]

\* IpAddr::is_unspecified
is_unspecified(ip) == ip \in {"0.0.0.0", "::"}

\* IpAddr::V4(_) as a pattern
IsV4(ip) == ip \in {"0.0.0.0", "203.0.113.1", "192.168.1.2", "127.0.0.1"}

\* the ports a socket is bound to or mapped to
AsmPorts == {7, 8}

\* add_addr!: push the address with its type unless the address is already there
add_addr(addrs, ipp, typ) ==
    IF \E i \in 1..Len(addrs) : addrs[i].addr = ipp
    THEN addrs
    ELSE Append(addrs, DirectAddr(ipp, typ))

\* the part of store_direct_addr_update the actor runs itself: the port
\* mapping, then the report's global_v4, its Stun4LocalPort variant and global_v6
PublicAddrs(in) ==
    LET a1 == IF in.maybe_port_mapped # {}
              THEN add_addr(<<>>, CHOOSE a \in in.maybe_port_mapped : TRUE, "Portmapped")
              ELSE <<>>
        nr == IF in.nr = {} THEN [global_v4 |-> {}, global_v6 |-> {},
                                  mapping_varies_by_dest_ip |-> {}]
              ELSE CHOOSE r \in in.nr : TRUE
        a2 == IF nr.global_v4 # {}
              THEN add_addr(a1, CHOOSE a \in nr.global_v4 : TRUE, "Stun")
              ELSE a1
        \* mapping_varies_by_dest_ip.unwrap_or_default() && port != 0
        a3 == IF nr.global_v4 # {} /\ nr.mapping_varies_by_dest_ip = {TRUE} /\ in.port # 0
              THEN add_addr(a2, SocketAddr((CHOOSE a \in nr.global_v4 : TRUE).ip, in.port),
                            "Stun4LocalPort")
              ELSE a2
    IN  IF nr.global_v6 # {}
        THEN add_addr(a3, CHOOSE a \in nr.global_v6 : TRUE, "Stun")
        ELSE a3

\* for ip in ips: the address of each interface with the port of the
\* unspecified socket of its family, if there is one
RECURSIVE AddInterfaces(_, _, _, _, _)
AddInterfaces(addrs, ips, i, v4_port, v6_port) ==
    IF i > Len(ips) THEN addrs
    ELSE LET port == IF IsV4(ips[i]) THEN v4_port ELSE v6_port
         IN  AddInterfaces(IF port # {}
                           THEN add_addr(addrs, SocketAddr(ips[i], CHOOSE p \in port : TRUE),
                                         "Local")
                           ELSE addrs,
                           ips, i + 1, v4_port, v6_port)

\* the task store_direct_addr_update spawns: the local addresses after the public ones
LocalAddrs(addrs, in) ==
    LET is_unspecified_v4 == \E a \in in.local_addr_v4 : is_unspecified(a.ip)
        is_unspecified_v6 == \E a \in in.local_addr_v6 : is_unspecified(a.ip)
        ips == IF in.ips = <<>> /\ addrs = <<>> THEN <<"127.0.0.1">> ELSE in.ips
        v4_port == {a.port : a \in {b \in in.local_addr_v4 : is_unspecified(b.ip)}}
        v6_port == {a.port : a \in {b \in in.local_addr_v6 : is_unspecified(b.ip)}}
        b1 == IF is_unspecified_v4 \/ is_unspecified_v6
              THEN AddInterfaces(addrs, ips, 1, v4_port, v6_port)
              ELSE addrs
        b2 == IF ~is_unspecified_v4 /\ in.local_addr_v4 # {}
              THEN add_addr(b1, CHOOSE a \in in.local_addr_v4 : TRUE, "Local")
              ELSE b1
    IN  IF ~is_unspecified_v6 /\ in.local_addr_v6 # {}
        THEN add_addr(b2, CHOOSE a \in in.local_addr_v6 : TRUE, "Local")
        ELSE b2

\* netcheck::Report, the fields store_direct_addr_update reads
AsmReports == [global_v4 : {{}, {SocketAddr("203.0.113.1", 8)}},
               global_v6 : {{}, {SocketAddr("2001:db8::1", 8)}},
               mapping_varies_by_dest_ip : {{}, {TRUE}, {FALSE}}]

\* what an update can find
AsmInputs == [maybe_port_mapped : {{}} \cup {{SocketAddr("203.0.113.1", p)} : p \in AsmPorts},
              nr : {{}} \cup {{r} : r \in AsmReports},
              port : {0, 7},
              local_addr_v4 : {{SocketAddr("0.0.0.0", 7)}, {SocketAddr("192.168.1.2", 7)}},
              local_addr_v6 : {{}, {SocketAddr("::", 7)}},
              ips : {<<>>, <<"192.168.1.2">>, <<"192.168.1.2", "fe80::1">>}]

\* store_direct_addr_update up to its call of update_direct_addresses
StoreDirectAddrUpdate ==
    /\ asm_addrs = {}
    /\ asm_addrs' = {LocalAddrs(PublicAddrs(asm_in), asm_in)}
    /\ UNCHANGED <<asm_in, otherAsm>>

NextAsm == StoreDirectAddrUpdate

InitAsmInputs ==
    /\ InitOtherAsm
    /\ asm_in \in AsmInputs
    /\ asm_addrs = {}

SpecAsm == InitAsmInputs /\ [][NextAsm]_vars

\* the place of a DirectAddrType in the priority order
TypRank(typ) ==
    CASE typ = "Stun" -> 1
      [] typ = "Portmapped" -> 2
      [] typ = "Stun4LocalPort" -> 3
      [] typ = "Local" -> 4

\* C25: the list an update assembles is in priority order: the STUN
\* addresses first, then the port-mapped address, then Stun4LocalPort, then
\* the local addresses; Stun4LocalPort is there only when the mapping varies
\* by destination and the local port is fixed.
C25_PriorityOrder ==
    \A addrs \in asm_addrs :
        /\ \A i, j \in 1..Len(addrs) :
              i < j => TypRank(addrs[i].typ) <= TypRank(addrs[j].typ)
        /\ (\E i \in 1..Len(addrs) : addrs[i].typ = "Stun4LocalPort")
              => /\ asm_in.port # 0
                 /\ \E r \in asm_in.nr : r.mapping_varies_by_dest_ip = {TRUE}

\* --------------------------------------------------------- home relay

\* the relay URLs a relay map can hold
HomeUrls == {"r1", "r2"}

\* mpsc::channel(256) of the actor and of the relay actor, scaled down
ActorMailbox == 2
RelayActorMailbox == 1

\* ActorMessage::NetcheckReport(report, why): Ok(None), Ok(Some(report)) with
\* the report's preferred_relay, or Err
NetcheckReport(res, pref) == [kind |-> "NetcheckReport", res |-> res, pref |-> pref]
\* any other ActorMessage
OtherActorMessage == [kind |-> "EndpointPingExpired", res |-> None, pref |-> None]

\* RelayActorMessage::SetHome and RelayActorMessage::Send
SetHome(url) == [kind |-> "SetHome", url |-> url]
RelaySendMessage == [kind |-> "Send", url |-> None]

\* a relay map that never counts as empty
relay_map_is_empty_never(m) == FALSE

\* RelayMap::is_empty
relay_map_is_empty(m) == m = {}

\* pick_relay_fallback: the current home relay if there is one, else a relay
\* of the map chosen with the fixed seed 0, None for an empty map
pick_relay_fallback(mine, m) ==
    IF mine # None THEN mine
    ELSE IF m = {} THEN None
    ELSE CHOOSE u \in m : TRUE

\* send_relay_actor: try_send, a message for a full channel is dropped
send_relay_actor(queue, msg) ==
    IF Len(queue) < RelayActorMailbox
    THEN [queue |-> Append(queue, msg), set_home |-> "sent"]
    ELSE [queue |-> queue, set_home |-> "full"]

\* set_nearest_relay: nothing on no change; else my_relay is replaced and, for
\* Some(url), the address is published and SetHome goes to the relay actor
set_nearest_relay(mine, queue, relay_url) ==
    IF relay_url = mine
    THEN [my_relay |-> mine, queue |-> queue, published |-> FALSE, set_home |-> None]
    ELSE IF relay_url = None
    THEN [my_relay |-> None, queue |-> queue, published |-> FALSE, set_home |-> None]
    ELSE LET sent == send_relay_actor(queue, SetHome(relay_url))
         IN  [my_relay |-> relay_url, queue |-> sent.queue, published |-> TRUE,
              set_home |-> sent.set_home]

\* handle_netcheck_report: with a report the home relay is elected, from the
\* report or by pick_relay_fallback; store_direct_addr_update runs either way
handle_netcheck_report(mine, m, queue, msg) ==
    IF msg.res = "ok_some"
    THEN LET preferred_relay == IF msg.pref = None THEN pick_relay_fallback(mine, m)
                                ELSE msg.pref
         IN  set_nearest_relay(mine, queue, preferred_relay)
    ELSE [my_relay |-> mine, queue |-> queue, published |-> FALSE, set_home |-> None]

\* update_net_info: with an empty relay map the actor sends itself
\* NetcheckReport(Ok(None)) and waits for room in its mailbox; else netcheck is
\* asked for a report, which a spawned task will send, or the update is
\* finalized when netcheck cannot be started
HomeUpdateNetInfo ==
    /\ home_pc = "idle"
    /\ home_updating < MaxUpdating
    /\ UNCHANGED <<relay_map, my_relay, relay_actor_msgs, otherHome>>
    /\ IF relay_map_is_empty(relay_map)
       THEN /\ home_updating' = home_updating + 1
            /\ UNCHANGED home_netchecks
            /\ home_last' = [op |-> "update_net_info", stored |-> None, finalized |-> FALSE,
                             published |-> FALSE, set_home |-> None]
            /\ IF Len(home_msgs) < ActorMailbox
               THEN /\ home_msgs' = Append(home_msgs, NetcheckReport("ok_none", None))
                    /\ UNCHANGED home_pc
               ELSE /\ home_pc' = "sending"
                    /\ UNCHANGED home_msgs
       ELSE \/ /\ home_updating' = home_updating + 1
               /\ home_netchecks' = home_netchecks + 1
               /\ home_last' = [op |-> "update_net_info", stored |-> None,
                                finalized |-> FALSE, published |-> FALSE, set_home |-> None]
               /\ UNCHANGED <<home_msgs, home_pc>>
            \/ /\ home_last' = [op |-> "update_net_info", stored |-> None,
                                finalized |-> TRUE, published |-> FALSE, set_home |-> None]
               /\ UNCHANGED <<home_updating, home_netchecks, home_msgs, home_pc>>

\* the task update_net_info spawns: the report, or the error or timeout of
\* netcheck, goes to the actor's mailbox once there is room
HomeNetcheckTask(res, pref) ==
    /\ home_netchecks > 0
    /\ Len(home_msgs) < ActorMailbox
    /\ home_netchecks' = home_netchecks - 1
    /\ home_msgs' = Append(home_msgs, NetcheckReport(res, pref))
    /\ UNCHANGED <<relay_map, my_relay, home_pc, home_updating, relay_actor_msgs,
                   home_last, otherHome>>

\* another holder of actor_sender sends an ActorMessage
HomeOtherSend ==
    /\ Len(home_msgs) < ActorMailbox
    /\ home_msgs' = Append(home_msgs, OtherActorMessage)
    /\ UNCHANGED <<relay_map, my_relay, home_pc, home_updating, home_netchecks,
                   relay_actor_msgs, home_last, otherHome>>

\* Actor::run takes the next message; handle_actor_message(NetcheckReport)
\* handles an Ok report, only logs an Err, and finalizes the update
HomeActorRecv ==
    /\ home_pc = "idle"
    /\ home_msgs # <<>>
    /\ home_msgs' = Tail(home_msgs)
    /\ UNCHANGED <<relay_map, home_pc, home_netchecks, otherHome>>
    /\ LET msg == Head(home_msgs) IN
       IF msg.kind = "NetcheckReport"
       THEN LET h == handle_netcheck_report(my_relay, relay_map, relay_actor_msgs, msg) IN
            /\ my_relay' = h.my_relay
            /\ relay_actor_msgs' = h.queue
            /\ home_updating' = home_updating - 1
            /\ home_last' = [op |-> "NetcheckReport",
                             stored |-> IF msg.res = "err" THEN None ELSE msg.res,
                             finalized |-> TRUE, published |-> h.published,
                             set_home |-> h.set_home]
       ELSE /\ home_last' = [op |-> msg.kind, stored |-> None, finalized |-> FALSE,
                             published |-> FALSE, set_home |-> None]
            /\ UNCHANGED <<my_relay, relay_actor_msgs, home_updating>>

\* the send path hands a packet to the relay actor with try_send
HomeRelaySend ==
    /\ Len(relay_actor_msgs) < RelayActorMailbox
    /\ relay_actor_msgs' = Append(relay_actor_msgs, RelaySendMessage)
    /\ UNCHANGED <<relay_map, my_relay, home_msgs, home_pc, home_updating, home_netchecks,
                   home_last, otherHome>>

\* the relay actor takes its next message
RelayActorRecv ==
    /\ relay_actor_msgs # <<>>
    /\ relay_actor_msgs' = Tail(relay_actor_msgs)
    /\ UNCHANGED <<relay_map, my_relay, home_msgs, home_pc, home_updating, home_netchecks,
                   home_last, otherHome>>

NextHome ==
    \/ HomeUpdateNetInfo
    \/ \E res \in {"ok_some", "err"}, pref \in relay_map \cup {None} :
           (res = "err" => pref = None) /\ HomeNetcheckTask(res, pref)
    \/ HomeOtherSend
    \/ HomeActorRecv
    \/ HomeRelaySend
    \/ RelayActorRecv

InitHomeInputs ==
    /\ InitOtherHome
    /\ relay_map \in SUBSET HomeUrls
    /\ my_relay = None
    /\ home_msgs = <<>>
    /\ home_pc = "idle"
    /\ home_updating = 0
    /\ home_netchecks = 0
    /\ relay_actor_msgs = <<>>
    /\ home_last = [op |-> None, stored |-> None, finalized |-> FALSE,
                    published |-> FALSE, set_home |-> None]

SpecHome == InitHomeInputs /\ [][NextHome]_vars

HomeReportHandled ==
    /\ Len(home_msgs') < Len(home_msgs)
    /\ Head(home_msgs).kind = "NetcheckReport"

\* C30: a step that changes my_relay to a URL u publishes the address and
\* puts SetHome{u} in the relay actor's channel; a step that leaves my_relay
\* as it is sends the relay actor nothing.
C30_HomeChangeDelivered ==
    [][HomeReportHandled =>
          IF my_relay' # my_relay /\ my_relay' # None
          THEN /\ home_last'.published
               /\ relay_actor_msgs' = Append(relay_actor_msgs, SetHome(my_relay'))
          ELSE /\ ~home_last'.published
               /\ relay_actor_msgs' = relay_actor_msgs]_vars

\* ------------------------------------ relay connection: writer and reader
\* messages handed to one connection, and PER_CLIENT_READ_QUEUE_DEPTH scaled down
MaxFrames == 3
PER_CLIENT_READ_QUEUE_DEPTH == 1

\* ConnWriterMessage but Shutdown
FrameKinds == {"Packet", "Pong", "Ping", "NotePreferred"}

\* ConnWriterMessage, numbered as the channel accepts it
WriterMessage(kind) == [kind |-> kind, id |-> io_enqueued + 1]

\* what the reader task's read of the next frame comes to: a frame
\* process_incoming_frame accepts, one it does not, a read error, the end of
\* the stream, or CLIENT_RECV_TIMEOUT
ReadOutcomes == {"frame", "unexpected", "error", "eof", "timeout"}

\* the writer task has ended, its receiver is dropped
IoWriterFinished == io_writer_task # "running"

\* the reader task has ended or was aborted, its sender is dropped
IoReaderFinished == io_reader_task \in {"done", "aborted"}

\* mpsc::Sender::send on the writer channel, once it returns: the message is
\* at the back of the queue, or the channel is closed
writer_channel_send(queue, msg) == IF IoWriterFinished THEN queue ELSE Append(queue, msg)

\* the send can return: the channel is closed or has room
WriterChannelReady ==
    IoWriterFinished \/ Len(io_writer_channel) < PER_CLIENT_SEND_QUEUE_DEPTH

\* Conn::send, send_ping, send_pong, note_preferred
IoSend(kind) ==
    /\ ~IoWriterFinished
    /\ io_enqueued < MaxFrames
    /\ Len(io_writer_channel) < PER_CLIENT_SEND_QUEUE_DEPTH
    /\ io_writer_channel' = writer_channel_send(io_writer_channel, WriterMessage(kind))
    /\ io_enqueued' = io_enqueued + 1
    /\ UNCHANGED <<io_writer_task, io_wire, io_reader_task, io_reader_channel, io_recv, otherIo>>

\* a writer that takes the newest message of the channel
recv_msgs_newest(queue) == [msg |-> queue[Len(queue)], rest |-> SubSeq(queue, 1, Len(queue) - 1)]

\* recv_msgs.recv(): the oldest message of the channel
recv_msgs(queue) == [msg |-> Head(queue), rest |-> Tail(queue)]

\* ConnWriterTasks::run, one message: Shutdown ends the task with Ok, every
\* other message is written as its frame; a failed write ends the task
IoWriterRun(io) ==
    /\ ~IoWriterFinished
    /\ io_writer_channel # <<>>
    /\ LET r == recv_msgs(io_writer_channel) IN
       IF r.msg.kind = "Shutdown"
       THEN io_writer_task' = "ok" /\ io_writer_channel' = <<>> /\ UNCHANGED io_wire
       ELSE IF io = "ok"
       THEN /\ io_wire' = Append(io_wire, r.msg)
            /\ io_writer_channel' = r.rest
            /\ UNCHANGED io_writer_task
       ELSE io_writer_task' = "err" /\ io_writer_channel' = <<>> /\ UNCHANGED io_wire
    /\ UNCHANGED <<io_enqueued, io_reader_task, io_reader_channel, io_recv, otherIo>>

\* a reader task that stops on an error without a word to the writer
reader_stopped_silent(queue) == queue

\* the reader task on an error: Shutdown goes to the writer channel
reader_stopped(queue) == writer_channel_send(queue, [kind |-> "Shutdown", id |-> 0])

\* the reader task, one turn of its loop up to the sends: a good frame waits
\* for room in the reader channel, anything else stops the loop
IoReaderRead(frame) ==
    /\ io_reader_task = "running"
    /\ IF frame = "frame"
       THEN /\ io_reader_channel < PER_CLIENT_READ_QUEUE_DEPTH
            /\ io_reader_channel' = io_reader_channel + 1
            /\ UNCHANGED <<io_reader_task, io_recv>>
       ELSE /\ io_reader_task' = "stopping"
            /\ io_recv' = [io_recv EXCEPT !.cause = frame]
            /\ UNCHANGED io_reader_channel
    /\ UNCHANGED <<io_writer_channel, io_writer_task, io_wire, io_enqueued, otherIo>>

\* the reader task after an error: writer_sender.send(Shutdown).await.ok(),
\* then the task ends
IoReaderStop ==
    /\ io_reader_task = "stopping"
    /\ WriterChannelReady
    /\ io_writer_channel' = reader_stopped(io_writer_channel)
    /\ io_reader_task' = "done"
    /\ UNCHANGED <<io_writer_task, io_wire, io_enqueued, io_reader_channel, io_recv, otherIo>>

\* ConnReceiver::recv, once it returns: a buffered message, or "shut down"
\* when the channel is empty and the reader task is gone
IoRecv ==
    /\ io_reader_channel > 0 \/ IoReaderFinished
    /\ IF io_reader_channel > 0
       THEN /\ io_reader_channel' = io_reader_channel - 1
            /\ io_recv' = [io_recv EXCEPT !.last = "Ok"]
       ELSE /\ io_recv' = [io_recv EXCEPT !.last = "Err", !.errored = TRUE]
            /\ UNCHANGED io_reader_channel
    /\ UNCHANGED <<io_writer_channel, io_writer_task, io_wire, io_enqueued, io_reader_task, otherIo>>

\* Conn::close: nothing when both tasks have finished; else Shutdown goes to
\* the writer channel and the reader task is aborted
IoClose ==
    /\ ~(IoWriterFinished /\ IoReaderFinished)
    /\ WriterChannelReady
    /\ io_writer_channel' = writer_channel_send(io_writer_channel, [kind |-> "Shutdown", id |-> 0])
    /\ io_reader_task' = IF IoReaderFinished THEN io_reader_task ELSE "aborted"
    /\ UNCHANGED <<io_writer_task, io_wire, io_enqueued, io_reader_channel, io_recv, otherIo>>

NextIo ==
    \/ \E kind \in FrameKinds : IoSend(kind)
    \/ \E io \in {"ok", "err"} : IoWriterRun(io)
    \/ \E frame \in ReadOutcomes : IoReaderRead(frame)
    \/ IoReaderStop
    \/ IoRecv
    \/ IoClose

SpecIo == Init /\ [][NextIo]_vars

\* C28: the frames written to the server are the messages the connection's
\* writer channel accepted, of whatever kind, in the order it accepted them
\* and with none left out in between.
C28_WrittenInEnqueueOrder ==
    /\ \A i \in 1..Len(io_wire) : io_wire[i].id = i
    /\ \A i \in 1..Len(io_writer_channel) :
          io_writer_channel[i].kind # "Shutdown" =>
              /\ io_writer_channel[i].id > Len(io_wire)
              /\ \A j \in 1..(i - 1) : io_writer_channel[j].id < io_writer_channel[i].id

\* a packet and then a pong were written while a third message waited
C28_Witness ==
    /\ Len(io_wire) = 2
    /\ io_wire[1].kind = "Packet" /\ io_wire[2].kind = "Pong"
    /\ Len(io_writer_channel) = 1 /\ io_writer_channel[1].kind = "Ping"

\* C29: once ConnReceiver::recv has returned an error, its last result is an
\* error ever after, the reader task has ended, and the writer task has
\* finished or has Shutdown in its channel, whatever stopped the reader.
C29_DeadForever ==
    io_recv.errored =>
        /\ io_recv.last = "Err"
        /\ io_reader_channel = 0
        /\ IoReaderFinished
        /\ \/ IoWriterFinished
           \/ \E i \in 1..Len(io_writer_channel) : io_writer_channel[i].kind = "Shutdown"

\* recv failed after an unexpected frame stopped the reader while the writer
\* still ran with a message ahead of the Shutdown
C29_Witness ==
    /\ io_recv.errored
    /\ io_recv.cause = "unexpected"
    /\ io_reader_task = "done"
    /\ io_writer_task = "running"
    /\ Len(io_writer_channel) = 2 /\ io_writer_channel[1].kind = "Packet"

\* ------------------------------------------- Handle::close and the tasks
\* what a step of close or of a task leaves alone besides the socket's flags
restOfTask == <<mapVars, daVars, updVars, genVars, recvVars, pipeVars, obsVars, cliVars,
                splitVars, eqVars, relayVars, connVars, metaVars, moreButTask>>

\* the tasks of the JoinSet that have not finished
TasksRunning ==
    {t \in {"actor"} : actor # "exited"}
        \cup {t \in {"relay-actor"} : relay_actor_task # "exited"}
        \cup {t \in {"udp-disco"} : udp_disco_task # "exited"}

\* handle_actor_message(Shutdown): the relay actor's token is cancelled and
\* the actor task returns
TaskActorShutdown ==
    /\ actor = "running"
    /\ actor_msgs # <<>>
    /\ Head(actor_msgs) = "Shutdown"
    /\ actor' = "exited"
    /\ actor_msgs' = <<>>
    /\ relay_actor_cancel_token' = TRUE
    /\ UNCHANGED <<closing, closed, closePc, relay_actor_task, udp_disco_task, actor_tasks,
                   tasks_lock, restOfTask>>

\* the relay actor sees its token cancelled and returns
RelayActorCancelled ==
    /\ relay_actor_cancel_token
    /\ relay_actor_task = "running"
    /\ relay_actor_task' = "exited"
    /\ UNCHANGED <<sockVars, relay_actor_cancel_token, udp_disco_task, actor_tasks, tasks_lock,
                   restOfTask>>

\* Handle::close, self.actor_tasks.lock().await
CloseLock(c) ==
    /\ closePc[c] = "join"
    /\ tasks_lock = None
    /\ tasks_lock' = c
    /\ closePc' = [closePc EXCEPT ![c] = "joining"]
    /\ UNCHANGED <<closing, closed, actor, actor_msgs, relay_actor_task,
                   relay_actor_cancel_token, udp_disco_task, actor_tasks, restOfTask>>

\* Handle::close, join_next yields a task that has finished
CloseJoinNext(c, t) ==
    /\ closePc[c] = "joining"
    /\ t \in actor_tasks \ TasksRunning
    /\ actor_tasks' = actor_tasks \ {t}
    /\ UNCHANGED <<sockVars, relay_actor_task, relay_actor_cancel_token, udp_disco_task,
                   tasks_lock, restOfTask>>

\* Handle::close, every task was joined within the 100 ms: close returns Ok
CloseJoined(c) ==
    /\ closePc[c] = "joining"
    /\ actor_tasks = {}
    /\ closePc' = [closePc EXCEPT ![c] = "ret_ok"]
    /\ tasks_lock' = None
    /\ UNCHANGED <<closing, closed, actor, actor_msgs, relay_actor_task,
                   relay_actor_cancel_token, udp_disco_task, actor_tasks, restOfTask>>

\* a shutdown of the JoinSet that forgets the tasks and lets them run
JoinSetShutdownDetach(status, ts) == status

\* JoinSet::shutdown: the tasks still in the set are aborted and awaited
JoinSetShutdown(status, ts) == [t \in DOMAIN status |-> IF t \in ts THEN "exited" ELSE status[t]]

\* Handle::close, the 100 ms are over: tasks.shutdown().await, close returns Ok
CloseAbort(c) ==
    /\ closePc[c] = "joining"
    /\ actor_tasks # {}
    /\ LET status == JoinSetShutdown([t \in {"actor", "relay-actor", "udp-disco"} |->
                                          CASE t = "actor" -> actor
                                            [] t = "relay-actor" -> relay_actor_task
                                            [] t = "udp-disco" -> udp_disco_task],
                                     actor_tasks) IN
        /\ actor' = status["actor"]
        /\ actor_msgs' = IF status["actor"] = "exited" THEN <<>> ELSE actor_msgs
        /\ relay_actor_task' = status["relay-actor"]
        /\ udp_disco_task' = status["udp-disco"]
    /\ actor_tasks' = {}
    /\ closePc' = [closePc EXCEPT ![c] = "ret_ok"]
    /\ tasks_lock' = None
    /\ UNCHANGED <<closing, closed, relay_actor_cancel_token, restOfTask>>

NextTask ==
    \/ ActorStart
    \/ ActorStartFails
    \/ TaskActorShutdown
    \/ RelayActorCancelled
    \/ \E c \in Closers : CloseBegin(c) \/ CloseSend(c) \/ CloseStore(c)
    \/ \E c \in Closers : CloseLock(c)
    \/ \E c \in Closers, t \in {"actor", "relay-actor", "udp-disco"} : CloseJoinNext(c, t)
    \/ \E c \in Closers : CloseJoined(c)
    \/ \E c \in Closers : CloseAbort(c)

SpecTask == Init /\ [][NextTask]_vars

\* C27: a Handle::close that took the lock of actor_tasks and waited for the
\* tasks returns Ok with the JoinSet empty and none of the main actor, the
\* relay actor and the UDP disco sender running; the JoinSet, once empty,
\* stays so and no task runs again.
C27_JoinedCloseLeavesNoTask ==
    [][/\ \A c \in Closers :
            (closePc[c] = "joining" /\ closePc'[c] = "ret_ok") =>
                (actor_tasks' = {} /\ TasksRunning' = {})
       /\ (actor_tasks = {} /\ TasksRunning = {}) =>
            (actor_tasks' = {} /\ TasksRunning' = {})]_vars

\* the one caller of close has returned Ok after the tasks were aborted
C27_Witness ==
    /\ closePc["c1"] = "ret_ok" /\ closePc["c2"] = "idle"
    /\ closed
    /\ actor_tasks = {} /\ TasksRunning = {}

\* C27 as stated: whenever a Handle::close has returned Ok the JoinSet is
\* empty and no actor task is running.
C27_NoTaskAfterCloseOk ==
    CloseReturnedOk => (actor_tasks = {} /\ TasksRunning = {})

\* ---------------------------------------------------------- handle_ping
\* mpsc::channel(256) of the UDP disco sender, scaled down
UdpDiscoMailbox == 1

\* the transaction ids of received pings, and the one of a ping back
PingTxIds == {"t1", "t2"}
PingBackTxId == "t9"

\* where a Ping can come from
PingSources == {UdpSource(a) : a \in UdpAddrs} \cup {RelaySource(r) : r \in RelayUrls}

\* PingRole
PingRoles == {"Duplicate", "LikelyHeartbeat", "NewPath", "Activate"}

\* what NodeMap::handle_ping answers: the role and needs_ping_back, a direct
\* ping to the sender
PingHandled(sender) ==
    [role : PingRoles,
     needs_ping_back : {{}} \cup {{[dst |-> UdpSource(a), dst_node |-> sender,
                                   tx_id |-> PingBackTxId]} : a \in UdpAddrs}]

\* disco::Message::Pong and disco::Message::Ping as they sit in a queue
DiscoPong(dst, dst_key, tx_id, observed) ==
    [msg |-> "pong", dst |-> dst, dst_key |-> dst_key, tx_id |-> tx_id,
     ping_observed_addr |-> observed]
DiscoPing(dst, dst_key, tx_id) ==
    [msg |-> "ping", dst |-> dst, dst_key |-> dst_key, tx_id |-> tx_id,
     ping_observed_addr |-> None]

\* the two queues and what the node map was told
PingQueues == [udp |-> udp_disco_queue, relay |-> relay_disco_queue,
               notified |-> ping_notified, sent |-> <<>>]

\* send_disco_message_queued on the queues: try_send on the UDP disco channel
\* or on the relay actor's channel; false and no message when it is full
send_disco_message_to_queue(q, dst, m) ==
    IF dst.kind = "Udp"
    THEN IF Len(q.udp) < UdpDiscoMailbox
         THEN [q EXCEPT !.udp = Append(@, m), !.sent = Append(@, TRUE)]
         ELSE [q EXCEPT !.sent = Append(@, FALSE)]
    ELSE IF Len(q.relay) < RelayActorMailbox
         THEN [q EXCEPT !.relay = Append(@, m), !.sent = Append(@, TRUE)]
         ELSE [q EXCEPT !.sent = Append(@, FALSE)]

\* send_ping_queued on the queues: notify_ping_sent only when the ping was queued
send_ping_to_queue(q, ping) ==
    LET q2 == send_disco_message_to_queue(q, ping.dst,
                                          DiscoPing(ping.dst, ping.dst_node, ping.tx_id)) IN
    IF q2.sent[Len(q2.sent)] THEN [q2 EXCEPT !.notified = @ \cup {ping.tx_id}] ELSE q2

\* a handle_ping that answers a Duplicate like any other Ping
handle_ping_queues_always(q, tx_id, sender, src, handled) ==
    LET q2 == send_disco_message_to_queue(q, src, DiscoPong(src, sender, tx_id, src)) IN
    IF handled.needs_ping_back = {} THEN q2
    ELSE send_ping_to_queue(q2, CHOOSE p \in handled.needs_ping_back : TRUE)

\* handle_ping on the queues: nothing for a Duplicate; else the Pong to the
\* address the Ping came from, then the ping back the node map asked for
handle_ping_queues(q, tx_id, sender, src, handled) ==
    IF handled.role = "Duplicate" THEN q
    ELSE LET q2 == send_disco_message_to_queue(q, src, DiscoPong(src, sender, tx_id, src)) IN
         IF handled.needs_ping_back = {} THEN q2
         ELSE send_ping_to_queue(q2, CHOOSE p \in handled.needs_ping_back : TRUE)

\* MagicSock::handle_ping for a Ping of sender received from src
HandlePing(tx_id, sender, src, handled) ==
    /\ LET q == handle_ping_queues(PingQueues, tx_id, sender, src, handled) IN
        /\ udp_disco_queue' = q.udp
        /\ relay_disco_queue' = q.relay
        /\ ping_notified' = q.notified
        /\ ping_last' = [tx_id |-> tx_id, sender |-> sender, src |-> src,
                         role |-> handled.role,
                         needs_ping_back |-> handled.needs_ping_back # {},
                         sent |-> q.sent]
    /\ UNCHANGED otherPing

\* the UDP disco sender task takes a message and sends it on the socket
UdpDiscoSenderRecv ==
    /\ udp_disco_queue # <<>>
    /\ udp_disco_queue' = Tail(udp_disco_queue)
    /\ UNCHANGED <<relay_disco_queue, ping_notified, ping_last, otherPing>>

\* the relay actor takes a message
RelayActorRecvDisco ==
    /\ relay_disco_queue # <<>>
    /\ relay_disco_queue' = Tail(relay_disco_queue)
    /\ UNCHANGED <<udp_disco_queue, ping_notified, ping_last, otherPing>>

NextPing ==
    \/ \E tx_id \in PingTxIds, sender \in NodeIds, src \in PingSources :
          \E handled \in PingHandled(sender) : HandlePing(tx_id, sender, src, handled)
    \/ UdpDiscoSenderRecv
    \/ RelayActorRecvDisco

SpecPing == Init /\ [][NextPing]_vars

\* what a step has appended to a queue
Appended(before, after) == SubSeq(after, Len(before) + 1, Len(after))

\* the Pongs among msgs
Pongs(msgs) == {i \in 1..Len(msgs) : msgs[i].msg = "pong"}

\* C32: handle_ping queues nothing and reports nothing for a Duplicate Ping;
\* for any other Ping it tries once to queue a Pong with the Ping's tx_id and
\* the source as observed address, on the UDP disco queue for a UDP source and
\* on the relay actor's channel for a relay source: the Pong is queued when
\* that queue has room and dropped when it is full, and no Pong goes to the
\* other queue.
C32_OnePongOnArrivalPath ==
    [][\A tx_id \in PingTxIds, sender \in NodeIds, src \in PingSources :
       \A handled \in PingHandled(sender) :
          HandlePing(tx_id, sender, src, handled) =>
              LET udp == Appended(udp_disco_queue, udp_disco_queue')
                  relay == Appended(relay_disco_queue, relay_disco_queue')
                  mine == IF src.kind = "Udp" THEN udp ELSE relay
                  other == IF src.kind = "Udp" THEN relay ELSE udp
                  room == IF src.kind = "Udp" THEN Len(udp_disco_queue) < UdpDiscoMailbox
                          ELSE Len(relay_disco_queue) < RelayActorMailbox
              IN  IF handled.role = "Duplicate"
                  THEN udp = <<>> /\ relay = <<>> /\ ping_notified' = ping_notified
                  ELSE /\ Pongs(other) = {}
                       /\ room => /\ Pongs(mine) = {1}
                                  /\ mine[1] = DiscoPong(src, sender, tx_id, src)
                       /\ ~room => Pongs(mine) = {}]_vars

\* a Ping that came over the relay and opened a new path got its Pong on the
\* relay channel and its ping back on the UDP queue
C32_Witness ==
    /\ ping_last.tx_id # None
    /\ ping_last.role = "NewPath" /\ ping_last.src.kind = "Relay"
    /\ ping_last.sent = <<TRUE, TRUE>>
    /\ Len(relay_disco_queue) = 1 /\ relay_disco_queue[1].msg = "pong"
    /\ relay_disco_queue[1].tx_id = ping_last.tx_id
    /\ Len(udp_disco_queue) = 1 /\ udp_disco_queue[1].msg = "ping"

\* C32 as stated: every Ping that is not a Duplicate gets exactly one Pong
\* with its tx_id and observed address queued on the path it came on, and a
\* Duplicate gets nothing.
C32_ExactlyOnePong ==
    [][\A tx_id \in PingTxIds, sender \in NodeIds, src \in PingSources :
       \A handled \in PingHandled(sender) :
          HandlePing(tx_id, sender, src, handled) =>
              LET udp == Appended(udp_disco_queue, udp_disco_queue')
                  relay == Appended(relay_disco_queue, relay_disco_queue')
                  mine == IF src.kind = "Udp" THEN udp ELSE relay
              IN  IF handled.role = "Duplicate"
                  THEN udp = <<>> /\ relay = <<>>
                  ELSE /\ Cardinality(Pongs(udp)) + Cardinality(Pongs(relay)) = 1
                       /\ Pongs(mine) = {1}
                       /\ mine[1] = DiscoPong(src, sender, tx_id, src)]_vars

\* ---------------------------------------------------------------- SpecSend
\* try_send with every list of ping actions get_send_addrs can hand back, on
\* node maps built by add_node_addr
AllPingActions == UNION {PingActionLists(n) : n \in NodeIds}

NextSend ==
    \/ \E addr \in NodeAddrs : AddNodeAddr(addr)
    \/ \E dest \in Dests, msgs \in AllPingActions : \E oc \in [1..Len(msgs) -> Outcomes] :
          TrySend(dest, msgs, oc)

SpecSend == Init /\ [][NextSend]_vars

\* the ping actions of msgs whose send is an error: pings to a UDP address
\* whose try_send on the socket fails
FailedPings(msgs, oc) ==
    {i \in 1..Len(msgs) : /\ msgs[i].kind = "SendPing"
                          /\ msgs[i].dst.kind = "Udp"
                          /\ oc[i] # "ok"}

\* the nodes for which the ping actions before k queue a CallMeMaybe
CallMeMaybesBefore(msgs, k) ==
    {msgs[i].dst_node : i \in {j \in 1..(k - 1) : msgs[j].kind = "SendCallMeMaybe"}}

\* C33: a try_send whose ping actions contain a ping with a failed send stops
\* the ping actions there: the error is the one of that ping, nothing of the
\* later actions is handed to a transport or queued, and nothing is reported
\* for them; the data datagram is still tried on the chosen paths and the
\* result is WouldBlock exactly when both data paths would block, whatever the
\* ping error was.  Without a failure the pings are handed over in the order
\* of the actions.
C33_StopsAtFirstFailedPing ==
    [][(last'.op = "try_send" /\ ~is_closed /\ ~is_closing
            /\ NodeOfMappedAddr(last'.dest) # None) =>
          LET msgs == last'.actions
              oc == last'.outcomes
              failed == FailedPings(msgs, oc)
              k == CHOOSE i \in failed : \A j \in failed : i <= j
          IN  /\ failed # {} =>
                  /\ last'.ping_err = UdpError(oc[k])
                  /\ Len(last'.out) <= k - 1
                  /\ Len(last'.notified) <= k - 1
                  /\ \A n \in NodeIds :
                        pending_call_me_maybes'[n] # pending_call_me_maybes[n]
                            => n \in CallMeMaybesBefore(msgs, k)
                  /\ (last'.res = "WouldBlock")
                        <=> (last'.udp = "WouldBlock" /\ last'.relay = "WouldBlock")
              /\ (failed = {} /\ \A i \in 1..Len(msgs) :
                                    msgs[i].kind = "SendPing" /\ oc[i] = "ok") =>
                  /\ last'.ping_err = None
                  /\ last'.out = [i \in 1..Len(msgs) |->
                                     <<IF msgs[i].dst.kind = "Udp" THEN "udp" ELSE "relay",
                                       "ping", msgs[i].dst_node>>]]_vars

\* a try_send whose first ping action failed on the socket: the relay ping
\* after it was not sent, and the data datagram went out on the UDP path
C33_Witness ==
    /\ last.op = "try_send"
    /\ last.ping_err = "Other"
    /\ Len(last.actions) = 2 /\ last.actions[2].dst.kind = "Relay"
    /\ last.outcomes[2] = "ok"
    /\ last.out = <<>>
    /\ last.udp = "sent"
    /\ last.res = "Ok"
    /\ \E n \in NodeIds : node_map[n].relay_url # None /\ node_map[n].direct_addresses # {}

\* the entries of out that are pings handed to the transport kind
PingsHanded(out, kind) == {i \in 1..Len(out) : out[i][1] = kind /\ out[i][2] = "ping"}

\* the entries of notified that are pings to a destination of kind
PingsNotified(notified, kind) == {i \in 1..Len(notified) : notified[i].kind = kind}

\* C35: after a try_send the node map has been told of as many pings to UDP
\* addresses as were sent on the socket, and of as many pings to relay URLs as
\* the relay actor's channel accepted.
C35_NotifiedOnlyWhenHanded ==
    LastIsTrySend =>
        /\ Cardinality(PingsNotified(last.notified, "Udp"))
              = Cardinality(PingsHanded(last.out, "udp"))
        /\ Cardinality(PingsNotified(last.notified, "Relay"))
              = Cardinality(PingsHanded(last.out, "relay"))
\* ---------------------------------------------------------------- SpecWake
\* poll_recv_relay against the actor's ReceiveRelay arm: the empty check and
\* the store of the waker are two steps of the caller, the enqueue and the
\* wake two steps of the actor
\* the capacity of the relay receive channel (128 in the source)
RelayRecvChannel == 2

\* the passthroughs of one ReceiveRelay message, at most
MaxPassthroughs == 2

\* the relay packets of a run, at most
MaxWakePackets == 3

\* Waker::wake on the task that polls: a parked task is scheduled, a task that
\* is inside poll is polled again once it returns, a scheduled task stays so
WakePoll == IF wake_poll = "parked" THEN "ready" ELSE wake_poll
WakeNotified == wake_notified \/ wake_poll \in {"more", "empty0", "empty1"}

\* the actor takes a ReceiveRelay message with n passthroughs
WakeActorRecv(n) ==
    /\ wake_actor = "idle"
    /\ wake_got + wake_channel + n <= MaxWakePackets
    /\ wake_todo' = n
    /\ wake_actor' = "send"
    /\ UNCHANGED <<wake_channel, network_recv_wakers, wake_poll, wake_notified, wake_got, otherWake>>

\* relay_recv_sender.send(passthrough).await: waits while the channel is full
WakeActorSend ==
    /\ wake_actor = "send"
    /\ wake_channel < RelayRecvChannel
    /\ wake_channel' = wake_channel + 1
    /\ wake_actor' = "wake"
    /\ UNCHANGED <<network_recv_wakers, wake_poll, wake_notified, wake_todo, wake_got, otherWake>>

\* network_recv_wakers.lock().take() and the wake of the waker found there
WakeActorWake ==
    /\ wake_actor = "wake"
    /\ network_recv_wakers' = FALSE
    /\ IF network_recv_wakers
       THEN wake_poll' = WakePoll /\ wake_notified' = WakeNotified
       ELSE UNCHANGED <<wake_poll, wake_notified>>
    /\ wake_todo' = wake_todo - 1
    /\ wake_actor' = IF wake_todo = 1 THEN "idle" ELSE "send"
    /\ UNCHANGED <<wake_channel, wake_got, otherWake>>

\* poll_recv_relay, one turn of the loop over the buffers: try_recv on the
\* locked receiver
WakePollTryRecv ==
    /\ wake_poll \in {"ready", "more"}
    /\ IF wake_channel > 0
       THEN /\ wake_channel' = wake_channel - 1
            /\ wake_got' = wake_got + 1
            /\ wake_poll' = "more"
       ELSE /\ wake_poll' = IF wake_poll = "ready" THEN "empty0" ELSE "empty1"
            /\ UNCHANGED <<wake_channel, wake_got>>
    /\ UNCHANGED <<network_recv_wakers, wake_notified, wake_actor, wake_todo, otherWake>>

\* poll_recv_relay, the buffers are full: Poll::Ready, and the caller polls again
WakePollReady ==
    /\ wake_poll = "more"
    /\ wake_poll' = "ready"
    /\ wake_notified' = FALSE
    /\ UNCHANGED <<wake_channel, network_recv_wakers, wake_actor, wake_todo, wake_got, otherWake>>

\* poll_recv_relay, the Empty arm: the waker is stored and the loop left; the
\* caller parks when nothing was read and polls again otherwise
WakePollStoreWaker ==
    /\ wake_poll \in {"empty0", "empty1"}
    /\ network_recv_wakers' = TRUE
    /\ wake_poll' = IF wake_poll = "empty1" \/ wake_notified THEN "ready" ELSE "parked"
    /\ wake_notified' = FALSE
    /\ UNCHANGED <<wake_channel, wake_actor, wake_todo, wake_got, otherWake>>

NextWake ==
    \/ \E n \in 1..MaxPassthroughs : WakeActorRecv(n)
    \/ WakeActorSend
    \/ WakeActorWake
    \/ WakePollTryRecv
    \/ WakePollReady
    \/ WakePollStoreWaker

SpecWake == Init /\ [][NextWake]_vars

\* C34: while a packet is in the relay receive channel and the caller of
\* poll_recv is parked, a wake-up is pending: the actor is about to take the
\* waker the caller has stored and wake it.
C34_NoLostWakeup ==
    (wake_channel > 0 /\ wake_poll = "parked")
        => (wake_actor = "wake" /\ network_recv_wakers)
\* ------------------------------------------------------------ SpecHomeLive
\* SpecHome with the scheduling of the runtime: the actor task and the relay
\* actor task keep running, and a netcheck task that waits for room in the
\* actor's mailbox gets its turn (the channel serves its senders in order)
SpecHomeLive ==
    /\ InitHomeInputs
    /\ [][NextHome]_vars
    /\ WF_vars(HomeActorRecv)
    /\ WF_vars(RelayActorRecv)
    /\ SF_vars(\E res \in {"ok_some", "err"}, pref \in relay_map \cup {None} :
                  (res = "err" => pref = None) /\ HomeNetcheckTask(res, pref))

\* the actor waits in update_net_info for room in its own mailbox
HomeActorBlocked == home_pc = "sending"

\* C36: once as many direct-address updates are open as can be, one of them is
\* finalized, and the actor does not stay blocked in the send of the netcheck
\* result to its own mailbox.
C36_UpdateEventuallyFinalized ==
    /\ (home_updating = MaxUpdating) ~> (home_updating < MaxUpdating)
    /\ HomeActorBlocked ~> ~HomeActorBlocked
\* --------------------------------------------------------------- SpecOrder
\* the store tasks of successive direct-address updates: the actor spawns one
\* for each report and goes on, the runtime runs them when it will
\* the updates of a run, at most
MaxOrderUpdates == 3

\* the addresses an update can find
OrderAddrSets == {{"a1"}, {"a2"}, {"a1", "a2"}}

\* handle_actor_message(NetcheckReport(Ok(Some))): store_direct_addr_update
\* collects the addresses of the report and spawns the task that stores them;
\* the update is finalized and the next one may start
OrderHandleReport(addrs) ==
    /\ ord_started < MaxOrderUpdates
    /\ ord_started' = ord_started + 1
    /\ ord_tasks' = ord_tasks \cup {[update |-> ord_started + 1, addrs |-> addrs]}
    /\ UNCHANGED <<ord_direct_addrs, otherOrder>>

\* the spawned task of store_direct_addr_update: once the local interfaces
\* are listed it calls update_direct_addresses with its addresses
OrderStoreTask(t) ==
    /\ t \in ord_tasks
    /\ ord_tasks' = ord_tasks \ {t}
    /\ ord_direct_addrs' = t
    /\ UNCHANGED <<ord_started, otherOrder>>

NextOrder ==
    \/ \E addrs \in OrderAddrSets : OrderHandleReport(addrs)
    \/ \E t \in ord_tasks : OrderStoreTask(t)

SpecOrder == Init /\ [][NextOrder]_vars

\* C37: once every spawned store task has stored, direct_addrs holds the
\* addresses of the update that was started last.
C37_NewestUpdateStored ==
    ord_tasks = {} => ord_direct_addrs.update = ord_started
\* ------------------------------------------------------------- SpecTracker
\* the relay client's PingTracker and its ping tasks
\* the pings of a run, at most
MaxPings == 3

\* a ping task that still runs
PingTaskRunning == {"send_ping", "wait_pong"}

\* Actor::ping: connect, PingTracker::register, and the spawn of the ping task,
\* which has its result at once when the connect failed
TrackerPing(connect_res) ==
    /\ pt_registered < MaxPings
    /\ pt_registered' = pt_registered + 1
    /\ pt_pings' = pt_pings \cup {pt_registered + 1}
    /\ pt_tasks' = Append(pt_tasks, IF connect_res = "Ok" THEN "send_ping" ELSE connect_res)
    /\ UNCHANGED otherTracker

\* the ping task, conn.send_ping(ping): Err(ClientError::Send) when it fails
TrackerSendPing(p, w) ==
    /\ p \in 1..Len(pt_tasks)
    /\ pt_tasks[p] = "send_ping"
    /\ pt_tasks' = [pt_tasks EXCEPT ![p] = IF w = "ok" THEN "wait_pong" ELSE "Send"]
    /\ UNCHANGED <<pt_pings, pt_registered, otherTracker>>

\* the ping task, timeout(PING_TIMEOUT, recv) runs out
TrackerPingTimeout(p) ==
    /\ p \in 1..Len(pt_tasks)
    /\ pt_tasks[p] = "wait_pong"
    /\ pt_tasks' = [pt_tasks EXCEPT ![p] = "PingTimeout"]
    /\ UNCHANGED <<pt_pings, pt_registered, otherTracker>>

\* Actor::run receives Pong(p): PingTracker::unregister and the send on the
\* oneshot channel, which the waiting ping task takes as its Ok
TrackerPong(p) ==
    /\ p \in 1..Len(pt_tasks)
    /\ pt_tasks[p] # "send_ping"
    /\ pt_pings' = pt_pings \ {p}
    /\ pt_tasks' = IF p \in pt_pings /\ pt_tasks[p] = "wait_pong"
                   THEN [pt_tasks EXCEPT ![p] = "Ok"] ELSE pt_tasks
    /\ UNCHANGED <<pt_registered, otherTracker>>

NextTracker ==
    \/ \E connect_res \in {"Ok", "DialIO"} : TrackerPing(connect_res)
    \/ \E p \in 1..MaxPings, w \in WriteOutcomes : TrackerSendPing(p, w)
    \/ \E p \in 1..MaxPings : TrackerPingTimeout(p)
    \/ \E p \in 1..MaxPings : TrackerPong(p)

SpecTracker == Init /\ [][NextTracker]_vars

\* C38: the PingTracker holds only pings whose ping task still runs: a ping
\* whose request has completed, with a pong, a timeout, a failed send or a
\* failed connect, is not registered any more.
C38_TrackerHoldsOnlyWaiting ==
    \A p \in pt_pings : pt_tasks[p] \in PingTaskRunning
\* --------------------------------------------------------------- SpecParts
\* PacketSplitIter on one relay read
\* the bytes of a relay read, at most
MaxRelayBuf == 5

\* the byte values of the reads
PartBytes == {0, 1, 2}

\* the relay reads
RelayBufs == UNION {[1..n -> PartBytes] : n \in 0..MaxRelayBuf}

\* Buf::get_u16 that reads the high byte first
get_u16_be(bytes) == 256 * bytes[1] + bytes[2]

\* Buf::get_u16_le: the low byte comes first
get_u16_le(bytes) == bytes[1] + 256 * bytes[2]

\* PacketSplitIter::fail: the rest is thrown away, the item is the error
PacketSplitFail == [item |-> [res |-> "UnexpectedEof", ok |-> <<>>], bytes |-> <<>>]

\* PacketSplitIter::next on a non-empty rest
PacketSplitNext(bytes) ==
    IF Len(bytes) < 2 THEN PacketSplitFail
    ELSE LET len == get_u16_le(bytes)
             rest == SubSeq(bytes, 3, Len(bytes))
         IN IF Len(rest) < len THEN PacketSplitFail
            ELSE [item |-> [res |-> "Ok", ok |-> SubSeq(rest, 1, len)],
                  bytes |-> SubSeq(rest, len + 1, Len(rest))]

\* one call of Iterator::next
PartsNext ==
    /\ ~parts_done
    /\ IF parts_bytes # <<>>
       THEN LET n == PacketSplitNext(parts_bytes) IN
            /\ parts_out' = Append(parts_out, n.item)
            /\ parts_bytes' = n.bytes
            /\ UNCHANGED parts_done
       ELSE /\ parts_done' = TRUE
            /\ UNCHANGED <<parts_out, parts_bytes>>
    /\ UNCHANGED <<parts_buf, otherParts>>

NextParts == PartsNext

InitPartsInputs ==
    /\ InitOtherParts
    /\ parts_buf \in RelayBufs
    /\ parts_bytes = parts_buf
    /\ parts_out = <<>>
    /\ parts_done = FALSE

SpecParts == InitPartsInputs /\ [][NextParts]_vars

\* a length as a u16 prefix, low byte first and high byte first
LePrefix(n) == <<n % 256, n \div 256>>
BePrefix(n) == <<n \div 256, n % 256>>

\* the length a prefix stands for
LeLength(bytes) == CHOOSE n \in 0..65535 : LePrefix(n) = SubSeq(bytes, 1, 2)
BeLength(bytes) == CHOOSE n \in 0..65535 : BePrefix(n) = SubSeq(bytes, 1, 2)

\* the packets among the items
PartIsOk(item) == item.res = "Ok"
PartsOk == SelectSeq(parts_out, PartIsOk)

\* the packets, each behind its prefix, as they lie in a read
RECURSIVE LeFramed(_)
LeFramed(packets) ==
    IF packets = <<>> THEN <<>>
    ELSE LePrefix(Len(Head(packets).ok)) \o Head(packets).ok \o LeFramed(Tail(packets))
RECURSIVE BeFramed(_)
BeFramed(packets) ==
    IF packets = <<>> THEN <<>>
    ELSE BePrefix(Len(Head(packets).ok)) \o Head(packets).ok \o BeFramed(Tail(packets))

\* what of the read lies behind the first n bytes
PartsRest(n) == SubSeq(parts_buf, n + 1, Len(parts_buf))

\* the items are packets, but for an error that can only be the last item
PartsErrorLast ==
    \A i \in 1..Len(parts_out) : parts_out[i].res = "UnexpectedEof" => i = Len(parts_out)

====
